---- MODULE Spec2Model ----
(***************************************************************************)
(* Verification model of DuckyLighting: the HID packet protocol            *)
(* (Packet, PacketStream, PacketSender), the RGBKeyboard run loop and its   *)
(* hook list, the Ducky One 2 RGB colour encoder and the ReactiveFunction   *)
(* decay envelope.                                                          *)
(***************************************************************************)
EXTENDS Integers, Sequences, FiniteSets, TLC

(***************************************************************************)
(* Bounds of the model.                                                    *)
(***************************************************************************)
\* number of push cycles of the main loop that are explored
MaxCycles == 2
\* number of packets in each prepared (initialize / exit) traffic stream
PreparedLen == 2

(***************************************************************************)
(* Device tables (src/keyboards/ducky.py, src/backend/utils.py).           *)
(***************************************************************************)
KeyOrder ==
  <<
    "Escape", "SectionSign", "Tab", "CapsLock", "LeftShift", "LeftControl", "1", "Q", "A",
    "LeftWindows", "F1", "2", "W", "S", "Z", "LeftAlt", "F2", "3", "E", "D", "X", "F3", "4",
    "R", "F", "C", "F4", "5", "T", "G", "V", "6", "Y", "H", "B", "Space", "F5", "7", "U", "J",
    "N", "F6", "8", "I", "K", "M", "F7", "9", "O", "L", ",", "F8", "0", "P", "Semicolon", ".",
    "RightAlt", "F9", "-", "[", "'", "FSlash", "F10", "=", "]", "RightWindows", "F11",
    "RightShift", "Function", "F12", "Backspace", "BSlash", "Enter", "RightControl",
    "PrintScreen", "Insert", "Delete", "LeftArrow", "ScrollLock", "Home", "End", "UpArrow",
    "DownArrow", "Pause", "PageUp", "PageDown", "RightArrow", "Calc", "NumLock", "N7", "N4",
    "N1", "N0", "Mute", "Divide", "N8", "N5", "N2", "VolumeDown", "Multiply", "N9", "N6", "N3",
    "NDelete", "VolumeUp", "Subtract", "Add", "RightEnter"
  >>

KeyLayout ==
    "Escape" :> <<0, 8>> @@ "SectionSign" :> <<0, 11>> @@ "Tab" :> <<0, 14>>
    @@ "CapsLock" :> <<0, 17>> @@ "LeftShift" :> <<0, 20>> @@ "LeftControl" :> <<0, 23>>
    @@ "1" :> <<0, 29>> @@ "Q" :> <<0, 32>> @@ "A" :> <<0, 35>> @@ "LeftWindows" :> <<0, 41>>
    @@ "F1" :> <<0, 44>> @@ "2" :> <<0, 47>> @@ "W" :> <<0, 50>> @@ "S" :> <<0, 53>>
    @@ "Z" :> <<0, 56>> @@ "LeftAlt" :> <<0, 59>> @@ "F2" :> <<1, 8>> @@ "3" :> <<1, 11>>
    @@ "E" :> <<1, 14>> @@ "D" :> <<1, 17>> @@ "X" :> <<1, 20>> @@ "F3" :> <<1, 26>>
    @@ "4" :> <<1, 29>> @@ "R" :> <<1, 32>> @@ "F" :> <<1, 35>> @@ "C" :> <<1, 38>>
    @@ "F4" :> <<1, 44>> @@ "5" :> <<1, 47>> @@ "T" :> <<1, 50>> @@ "G" :> <<1, 53>>
    @@ "V" :> <<1, 56>> @@ "6" :> <<2, 11>> @@ "Y" :> <<2, 14>> @@ "H" :> <<2, 17>>
    @@ "B" :> <<2, 20>> @@ "Space" :> <<2, 23>> @@ "F5" :> <<2, 26>> @@ "7" :> <<2, 29>>
    @@ "U" :> <<2, 32>> @@ "J" :> <<2, 35>> @@ "N" :> <<2, 38>> @@ "F6" :> <<2, 44>>
    @@ "8" :> <<2, 47>> @@ "I" :> <<2, 50>> @@ "K" :> <<2, 53>> @@ "M" :> <<2, 56>>
    @@ "F7" :> <<3, 8>> @@ "9" :> <<3, 11>> @@ "O" :> <<3, 14>> @@ "L" :> <<3, 17>>
    @@ "," :> <<3, 20>> @@ "F8" :> <<3, 26>> @@ "0" :> <<3, 29>> @@ "P" :> <<3, 32>>
    @@ "Semicolon" :> <<3, 35>> @@ "." :> <<3, 38>> @@ "RightAlt" :> <<3, 41>>
    @@ "F9" :> <<3, 44>> @@ "-" :> <<3, 47>> @@ "[" :> <<3, 50>> @@ "'" :> <<3, 53>>
    @@ "FSlash" :> <<3, 56>> @@ "F10" :> <<4, 8>> @@ "=" :> <<4, 11>> @@ "]" :> <<4, 14>>
    @@ "RightWindows" :> <<4, 23>> @@ "F11" :> <<4, 26>> @@ "RightShift" :> <<4, 38>>
    @@ "Function" :> <<4, 41>> @@ "F12" :> <<4, 44>> @@ "Backspace" :> <<4, 47>>
    @@ "BSlash" :> <<4, 50>> @@ "Enter" :> <<4, 53>> @@ "RightControl" :> <<4, 59>>
    @@ "PrintScreen" :> <<5, 8>> @@ "Insert" :> <<5, 11>> @@ "Delete" :> <<5, 14>>
    @@ "LeftArrow" :> <<5, 23>> @@ "ScrollLock" :> <<5, 26>> @@ "Home" :> <<5, 29>>
    @@ "End" :> <<5, 32>> @@ "UpArrow" :> <<5, 38>> @@ "DownArrow" :> <<5, 41>>
    @@ "Pause" :> <<5, 44>> @@ "PageUp" :> <<5, 47>> @@ "PageDown" :> <<5, 50>>
    @@ "RightArrow" :> <<5, 59>> @@ "Calc" :> <<6, 8>> @@ "NumLock" :> <<6, 11>>
    @@ "N7" :> <<6, 14>> @@ "N4" :> <<6, 17>> @@ "N1" :> <<6, 20>> @@ "N0" :> <<6, 23>>
    @@ "Mute" :> <<6, 26>> @@ "Divide" :> <<6, 29>> @@ "N8" :> <<6, 32>> @@ "N5" :> <<6, 35>>
    @@ "N2" :> <<6, 38>> @@ "VolumeDown" :> <<6, 44>> @@ "Multiply" :> <<6, 47>>
    @@ "N9" :> <<6, 50>> @@ "N6" :> <<6, 53>> @@ "N3" :> <<6, 56>> @@ "NDelete" :> <<6, 59>>
    @@ "VolumeUp" :> <<7, 8>> @@ "Subtract" :> <<7, 11>> @@ "Add" :> <<7, 14>>
    @@ "RightEnter" :> <<7, 23>>

MaskALL ==
  <<
    "Escape", "F1", "F2", "F3", "F4", "F5", "F6", "F7", "F8", "F9", "F10", "F11", "F12",
    "PrintScreen", "ScrollLock", "Pause", "Calc", "Mute", "VolumeDown", "VolumeUp",
    "SectionSign", "1", "2", "3", "4", "5", "6", "7", "8", "9", "0", "-", "=", "Backspace",
    "Insert", "Home", "PageUp", "NumLock", "Divide", "Multiply", "Subtract", "Tab", "Q", "W",
    "E", "R", "T", "Y", "U", "I", "O", "P", "[", "]", "BSlash", "Delete", "End", "PageDown",
    "N7", "N8", "N9", "Add", "CapsLock", "A", "S", "D", "F", "G", "H", "J", "K", "L",
    "Semicolon", "'", "Enter", "N4", "N5", "N6", "LeftShift", "Z", "X", "C", "V", "B", "N", "M",
    ",", ".", "FSlash", "RightShift", "UpArrow", "N1", "N2", "N3", "LeftControl", "LeftWindows",
    "LeftAlt", "Space", "RightAlt", "RightWindows", "Function", "RightControl", "LeftArrow",
    "DownArrow", "RightArrow", "N0", "NDelete", "RightEnter"
  >>

key_codes ==
    "Escape" :> 1 @@ "F1" :> 59 @@ "F2" :> 60 @@ "F3" :> 61 @@ "F4" :> 62 @@ "F5" :> 63
    @@ "F6" :> 64 @@ "F7" :> 65 @@ "F8" :> 66 @@ "F9" :> 67 @@ "F10" :> 68 @@ "F11" :> 87
    @@ "F12" :> 88 @@ "PrintScreen" :> 55 @@ "ScrollLock" :> 70 @@ "Pause" :> 69
    @@ "Calc" :> -183 @@ "Mute" :> -173 @@ "VolumeDown" :> -174 @@ "VolumeUp" :> -175
    @@ "SectionSign" :> 41 @@ "1" :> 2 @@ "2" :> 3 @@ "3" :> 4 @@ "4" :> 5 @@ "5" :> 6
    @@ "6" :> 7 @@ "7" :> 8 @@ "8" :> 9 @@ "9" :> 10 @@ "0" :> 11 @@ "-" :> 12 @@ "=" :> 13
    @@ "Backspace" :> 14 @@ "Insert" :> 82 @@ "Home" :> 71 @@ "PageUp" :> 73 @@ "NumLock" :> 69
    @@ "Divide" :> 53 @@ "Multiply" :> 55 @@ "Subtract" :> 74 @@ "Tab" :> 15 @@ "Q" :> 16
    @@ "W" :> 17 @@ "E" :> 18 @@ "R" :> 19 @@ "T" :> 20 @@ "Y" :> 21 @@ "U" :> 22 @@ "I" :> 23
    @@ "O" :> 24 @@ "P" :> 25 @@ "[" :> 26 @@ "]" :> 27 @@ "BSlash" :> 43 @@ "Delete" :> 83
    @@ "End" :> 79 @@ "PageDown" :> 81 @@ "N7" :> 71 @@ "N8" :> 72 @@ "N9" :> 73 @@ "Add" :> 78
    @@ "CapsLock" :> 58 @@ "A" :> 30 @@ "S" :> 31 @@ "D" :> 32 @@ "F" :> 33 @@ "G" :> 34
    @@ "H" :> 35 @@ "J" :> 36 @@ "K" :> 37 @@ "L" :> 38 @@ "Semicolon" :> 39 @@ "'" :> 40
    @@ "Enter" :> 28 @@ "N4" :> 75 @@ "N5" :> 76 @@ "N6" :> 77 @@ "LeftShift" :> 42 @@ "Z" :> 44
    @@ "X" :> 45 @@ "C" :> 46 @@ "V" :> 47 @@ "B" :> 48 @@ "N" :> 49 @@ "M" :> 50 @@ "," :> 51
    @@ "." :> 52 @@ "FSlash" :> 53 @@ "RightShift" :> 54 @@ "UpArrow" :> 72 @@ "N1" :> 79
    @@ "N2" :> 80 @@ "N3" :> 81 @@ "LeftControl" :> 29 @@ "LeftWindows" :> 91 @@ "LeftAlt" :> 56
    @@ "Space" :> 57 @@ "RightAlt" :> 56 @@ "RightWindows" :> 92 @@ "Function" :> 0
    @@ "RightControl" :> 29 @@ "LeftArrow" :> 75 @@ "DownArrow" :> 80 @@ "RightArrow" :> 77
    @@ "N0" :> 82 @@ "NDelete" :> 83 @@ "RightEnter" :> 28

\* the keyboard-package names of the special key classes
special_keys ==
    "Numpad" :> {"Divide", "Multiply", "NumLock", "N1", "N2", "N3", "N4", "N5", "N6", "N7",
                 "N8", "N9", "N0", "NDelete"}
    @@ "Right" :> {"RightAlt", "RightControl", "RightEnter", "RightWindows", "RightArrow"}

\* number of data packets built by packets_to_send, and their size in bytes
NumPackets == 8
PacketSize == 64

(***************************************************************************)
(* Small helpers.                                                          *)
(***************************************************************************)
Range(s) == {s[i] : i \in DOMAIN s}

Zeros(n) == [i \in 1..n |-> 0]

\* Python slice s[k:] of a sequence (k >= 0)
SliceFrom(s, k) == IF k >= Len(s) THEN << >> ELSE SubSeq(s, k + 1, Len(s))

(***************************************************************************)
(* Color (src/backend/utils.py): a triple <<r, g, b>>.                     *)
(***************************************************************************)
\* a clamp that keeps the low byte
clamp_channel_wrapping(v) == v % 256

clamp_channel(v) == IF v < 0 THEN 0 ELSE IF v > 255 THEN 255 ELSE v

Color(r, g, b) == <<clamp_channel(r), clamp_channel(g), clamp_channel(b)>>

Black == Color(0, 0, 0)

(***************************************************************************)
(* Packet (src/keyboards/hid/hidinterfacing.py).                           *)
(***************************************************************************)
Packet(outbound, data, report_id) ==
    [outbound |-> outbound, data |-> data, report_id |-> report_id]

\* Packet.__eq__ on two packets
PacketEq(o, self) ==
    /\ o.outbound = self.outbound
    /\ o.data = self.data
    /\ o.report_id = self.report_id

(***************************************************************************)
(* KeyColorManager / DuckyOne2RGBColorManager.                             *)
(***************************************************************************)
\* _setup_keys: every key starts black
InitialKeyColor == [k \in DOMAIN KeyLayout |-> Black]

\* set_key_color for every entry of a colour map (apply_scheme's loop)
apply_scheme(keys, colors) ==
    [k \in DOMAIN keys |-> IF k \in DOMAIN colors THEN colors[k] ELSE keys[k]]

\* a header with the same length byte in every packet
HeaderArray_one_length(i) ==
    [j \in 1..PacketSize |->
        CASE j = 1 -> 86
          [] j = 2 -> 66
          [] j = 5 -> 2
          [] j = 6 -> 18
          [] j = 7 -> 18 * i
          [] OTHER -> 0]

\* the header of data packet i (0-based), "Apply packet metadata"
HeaderArray(i) ==
    [j \in 1..PacketSize |->
        CASE j = 1 -> 86      \* data[0] = 0x56
          [] j = 2 -> 66      \* data[1] = 0x42
          [] j = 5 -> 2       \* data[4] = 0x02
          [] j = 6 -> IF i = 7 THEN 6 ELSE 18
          [] j = 7 -> 18 * i
          [] OTHER -> 0]

\* a spill that subtracts the packet size
ByteTarget_wrap64(packet_number, offset, x) ==
    IF offset + x >= 64
    THEN <<packet_number + 1, offset + x - 64>>
    ELSE <<packet_number, offset + x>>

\* where colour byte x (0..2) of a key with (packet_number, offset) is written
ByteTarget(packet_number, offset, x) ==
    IF offset + x >= 64
    THEN <<packet_number + 1, offset + x - 60>>
    ELSE <<packet_number, offset + x>>

\* the writes of "Apply key data" in the order the code does them: write w is
\* colour byte (w - 1) % 3 of the key number (w - 1) \div 3 + 1 in dictionary order
WriteKeyOf(w) == KeyOrder[(w - 1) \div 3 + 1]

WriteChannel(w) == (w - 1) % 3

WriteTarget(w) ==
    ByteTarget(KeyLayout[WriteKeyOf(w)][1], KeyLayout[WriteKeyOf(w)][2], WriteChannel(w))

\* the last write to position j of data packet p (0 when no key writes there):
\* data_arrays[packet][offset] = color_byte overwrites what was there
LastWrite ==
    [p \in 0..(NumPackets - 1) |->
        [j \in 0..(PacketSize - 1) |->
            LET ws == {w \in 1..(3 * Len(KeyOrder)) : WriteTarget(w) = <<p, j>>}
            IN  IF ws = {} THEN 0 ELSE CHOOSE w \in ws : \A v \in ws : v <= w]]

\* data_arrays after "Apply packet metadata" and "Apply key data"
DataArrays(keys) ==
    [n \in 1..NumPackets |->
        [j \in 1..PacketSize |->
            LET w == LastWrite[n - 1][j - 1]
            IN  IF w = 0 THEN HeaderArray(n - 1)[j]
                ELSE keys[WriteKeyOf(w)][WriteChannel(w) + 1]]]

\* a stream of the data packets alone
packets_to_send_data_only(keys) ==
    LET data_arrays == DataArrays(keys)
    IN  [n \in 1..NumPackets |-> Packet(TRUE, data_arrays[n], 1)]

\* packets_to_send: 8 (outbound data, inbound zero-filled) pairs
packets_to_send(keys) ==
    LET data_arrays == DataArrays(keys)
    IN  [n \in 1..(2 * NumPackets) |->
            IF n % 2 = 1
            THEN Packet(TRUE, data_arrays[(n + 1) \div 2], 1)
            ELSE Packet(FALSE, Zeros(64), 1)]

(***************************************************************************)
(* Prepared traffic.  The traffic files are not part of the sources; the   *)
(* streams are alternating outbound / inbound packets of two bytes.        *)
(***************************************************************************)
PreparedTraffic(name) ==
    [n \in 1..PreparedLen |->
        IF n % 2 = 1
        THEN Packet(TRUE, <<IF name = "initialize" THEN 65 ELSE 66, n>>, 1)
        ELSE Packet(FALSE, <<0, 0>>, 1)]

(***************************************************************************)
(* State.                                                                  *)
(***************************************************************************)
VARIABLES
    pc,             \* position of the _main_loop task
    initialized,    \* RGBKeyboard.initialized
    must_cancel,    \* the task's pending cancellation request (asyncio)
    keyColor,       \* KeyColorManager.keys[k].color
    packet_stream,  \* the stream being executed by execute_packet_stream
    idx,            \* number of packets taken from the stream's iterator
    inflight,       \* packets whose send / recv has started and not returned
    successes,      \* execute_packet_stream's local counter
    failures,       \* execute_packet_stream's local counter
    cycles,         \* completed push cycles of the main loop
    rejected,       \* push calls that raised "connection not initialized"
    execId,         \* history: number of stream executions started
    wire,           \* history: transport operations started, in order
    lastRet,        \* history: the last value returned by send / recv
    lastExec,       \* history: how the last ended stream execution ended
    faulted,        \* history: the last packet whose send / recv raised HIDException
    trace           \* history: the steps of the run, in order

runVars ==
    <<pc, initialized, must_cancel, keyColor, packet_stream, idx, inflight, successes,
      failures, cycles, rejected, execId, wire, lastRet, lastExec, faulted, trace>>

VARIABLES
    hooks_list,     \* the list object bound to self._hooks_list
    it_active,      \* _hook_callback is delivering an event
    it_detached,    \* the list it iterates is no longer bound to self._hooks_list
    it_list,        \* that list, once it is detached
    it_pos,         \* the position of the list iterator
    received,       \* how often each hook was called with the current event
    stable,         \* history: hooks registered since the delivery began
    delivered,      \* history: the last delivery has finished
    mutated,        \* history: the list was changed during the delivery
    remove_raised,  \* history: a _remove_hooks call raised TypeError
    kb_layers,      \* the layers of self.scheme, bottom first
    kb_call,        \* history: the last call that changed the layers, and how it ended
    kb_event,       \* history: the hooks that got a key event since the layers changed
    kb_pc           \* position of set_config on the main thread

\* the layers and the history of the calls that change them
layerVars == <<kb_layers, kb_call, kb_event, kb_pc>>

hookVars ==
    <<hooks_list, it_active, it_detached, it_list, it_pos, received, stable, delivered,
      mutated, remove_raised, layerVars>>

VARIABLES
    rkey,           \* ReactiveFunction.key
    lower_function, \* ReactiveFunction.lower_function, by the kind of the argument it was built from
    on,             \* ReactiveFunction.on
    start_time,     \* ReactiveFunction.start_time
    now,            \* the wall clock, time.time()
    rel_pc,         \* position of _callback_on_release on the hook thread
    get_pc,         \* position of get on the main thread
    cur_time,       \* get's local cur_time
    scalar,         \* get's local scalar, a fraction <<numerator, denominator>>
    last_match,     \* history: kind of the last matching event
    last_release,   \* history: time recorded by the last matching release
    snap,           \* history: the state get was called in
    overlap,        \* history: an event or reset ran while get was running
    got,            \* history: what the last get returned
    last_event      \* history: the last key event that was observed, with its kind

reactVars ==
    <<rkey, lower_function, on, start_time, now, rel_pc, get_pc, cur_time, scalar, last_match,
      last_release, snap, overlap, got, last_event>>

VARIABLES
    kcm_keys,       \* the colours in self.keys of a DuckyOne2RGBColorManager
    kcm_stream,     \* what its packets_to_send returned last
    gen_keys,       \* self.keys of a manager with a supplied layout, in dictionary order
    gen_data        \* the data arrays its packets_to_send built last

encVars == <<kcm_keys, kcm_stream, gen_keys, gen_data>>

VARIABLES
    cmb_layers,     \* the layer stack of a CombiningScheme, in insertion order
    cmb_out         \* what its get_all_colors returned last

cmbVars == <<cmb_layers, cmb_out>>

VARIABLES
    pkt_in,         \* the arguments of a call of Packet.build_packet
    pkt_out,        \* its outcome, and the text of the packet once it was serialized
    file_in,        \* the text of a traffic file
    file_out        \* the outcome of PacketStream(file_path = ...)

pktVars == <<pkt_in, pkt_out, file_in, file_out>>

VARIABLES
    col,            \* the channels of a Color object
    col_op,         \* the operation that gave it, with its operands
    col_ops         \* number of operations so far

colVars == <<col, col_op, col_ops>>

VARIABLES
    mask_value,     \* the key list of every member of Mask
    mask_out,       \* the outcome of the last subtraction, with its operands
    mask_ops        \* number of subtractions so far

maskVars == <<mask_value, mask_out, mask_ops>>

VARIABLES
    grad,           \* a Gradient after its construction
    grad_out        \* the outcome of its last get_color

gradientVars == <<grad, grad_out>>

VARIABLES
    built           \* the outcome of the last construction of a Mask

buildVars == <<built>>

VARIABLES
    per_fn,         \* a PeriodicFunction: period, current_time, start_time
    per_now,        \* the wall clock, time.time()
    per_at          \* the wall clock at the last update_time, 0 - 1 before the first

periodicVars == <<per_fn, per_now, per_at>>

VARIABLES
    kidx_out,       \* the last comparison of two KeyIndex values
    tbl_out         \* the last lookup in a key-to-function table

keyIndexVars == <<kidx_out, tbl_out>>

VARIABLES
    cfg_class,      \* a class derived from Config: its base, its body, __layers__
    cfg_obj         \* an instance of the class: its scheme and the calls of get_scheme

configVars == <<cfg_class, cfg_obj>>

\* the objects that are used without a keyboard
libVars == <<encVars, cmbVars, pktVars, colVars, maskVars, gradientVars, buildVars, periodicVars, keyIndexVars, configVars>>

\* what the operations of one object leave alone
exceptEnc == <<runVars, hookVars, reactVars, cmbVars, pktVars, colVars, maskVars, gradientVars, buildVars, periodicVars, keyIndexVars, configVars>>
exceptCmb == <<runVars, hookVars, reactVars, encVars, pktVars, colVars, maskVars, gradientVars, buildVars, periodicVars, keyIndexVars, configVars>>
exceptPkt == <<runVars, hookVars, reactVars, encVars, cmbVars, colVars, maskVars, gradientVars, buildVars, periodicVars, keyIndexVars, configVars>>
exceptCol == <<runVars, hookVars, reactVars, encVars, cmbVars, pktVars, maskVars, gradientVars, buildVars, periodicVars, keyIndexVars, configVars>>
exceptMask == <<runVars, hookVars, reactVars, encVars, cmbVars, pktVars, colVars, gradientVars, buildVars, periodicVars, keyIndexVars, configVars>>
exceptGradient == <<runVars, hookVars, reactVars, encVars, cmbVars, pktVars, colVars, maskVars, buildVars, periodicVars, keyIndexVars, configVars>>
exceptBuild == <<runVars, hookVars, reactVars, encVars, cmbVars, pktVars, colVars, maskVars, gradientVars, periodicVars, keyIndexVars, configVars>>
exceptPeriodic == <<runVars, hookVars, reactVars, encVars, cmbVars, pktVars, colVars, maskVars, gradientVars, buildVars, keyIndexVars, configVars>>
exceptKeyIndex == <<runVars, hookVars, reactVars, encVars, cmbVars, pktVars, colVars, maskVars, gradientVars, buildVars, periodicVars, configVars>>
exceptConfig == <<runVars, hookVars, reactVars, encVars, cmbVars, pktVars, colVars, maskVars, gradientVars, buildVars, periodicVars, keyIndexVars>>

vars == <<runVars, hookVars, reactVars, libVars>>

\* number of outside push calls that are explored
MaxRejected == 1

\* colours a lighting scheme hands to apply_scheme
Palette == {Color(80, 0, 255)}

NoRet == [exec |-> 0, i |-> 0, outbound |-> FALSE, value |-> 0, result |-> FALSE]

NoExec == [exec |-> 0, phase |-> "none", outcome |-> "none", n |-> 0, taken |-> 0,
           successes |-> 0, failures |-> 0]

NoFault == [exec |-> 0, i |-> 0, op |-> "none"]

InitRun ==
    /\ pc = "idle"
    /\ initialized = FALSE
    /\ must_cancel = FALSE
    /\ keyColor = InitialKeyColor
    /\ packet_stream = << >>
    /\ idx = 0
    /\ inflight = {}
    /\ successes = 0
    /\ failures = 0
    /\ cycles = 0
    /\ rejected = 0
    /\ execId = 0
    /\ wire = << >>
    /\ lastRet = NoRet
    /\ lastExec = NoExec
    /\ faulted = NoFault
    /\ trace = << >>

(***************************************************************************)
(* PacketSender (src/keyboards/hid/hidinterfacing.py).                     *)
(***************************************************************************)
\* the stream execution the task is in, by the prepared-traffic name;
\* "prepared" is a prepared stream executed for a caller outside the main loop
Phase(p) ==
    CASE p = "init_exec" -> "initialize"
      [] p = "push_exec" -> "push"
      [] p = "ext_exec" -> "push"
      [] p = "ext_prepared" -> "prepared"
      [] p = "close_exec" -> "exit"
      [] OTHER -> "none"

Executing == pc \in {"init_exec", "push_exec", "ext_exec", "ext_prepared", "close_exec"}

\* what device.write may return for a packet: all bytes and the report id, or
\* one byte less
SendReturns(packet) == {Len(packet.data) + 1, Len(packet.data)}

\* what device.read(64) may return while a packet is expected: the expected
\* frame, a frame with another report id, with another last byte, one byte
\* short, the all-zero frame or (non-blocking read) no data at all
RecvFrames(packet) ==
    LET d == packet.data
        n == Len(d)
        other == IF n = 0 THEN << >> ELSE [d EXCEPT ![n] = (d[n] + 1) % 256]
        short == IF n = 0 THEN << >> ELSE SubSeq(d, 1, n - 1)
    IN  {f \in {<<packet.report_id>> \o d, <<packet.report_id + 1>> \o d,
                <<packet.report_id>> \o other, <<packet.report_id>> \o short,
                Zeros(PacketSize), << >>} : Len(f) <= PacketSize}

\* the comparison without the report-id byte taken off
send_result_no_report_id(packet, bytes_written) == bytes_written = Len(packet.data)

\* _handle_packet, outbound branch: send(...) - 1 == len(packet.data)
send_result(packet, bytes_written) == bytes_written - 1 = Len(packet.data)

\* _handle_packet, inbound branch:
\* packet == Packet(False, returned_data[1:], returned_data[0])
recv_result(packet, returned_data) ==
    PacketEq(Packet(FALSE, SliceFrom(returned_data, 1), returned_data[1]), packet)

\* returned_data[0] raises IndexError on an empty frame
recv_raises(returned_data) == Len(returned_data) = 0

\* the loop not awaiting the call (asyncio.create_task instead of await)
AwaitSkipped(running) == TRUE

\* "result = await self._handle_packet(packet)": the loop goes on to the next
\* packet only when the awaited call is over
AwaitDone(running) == running = {}

\* except (KeyboardInterrupt, Exception) of _main_loop
Catches(err) == err.name = "KeyboardInterrupt" \/ err.exception

HIDException == [name |-> "HIDException", exception |-> TRUE]
IndexError == [name |-> "IndexError", exception |-> TRUE]
NotInitializedError == [name |-> "NotImplementedError", exception |-> TRUE]
KeyboardInterrupt == [name |-> "KeyboardInterrupt", exception |-> FALSE]
\* asyncio.CancelledError derives from BaseException since Python 3.8 and from
\* Exception before
CancelledErrors ==
    {[name |-> "CancelledError", exception |-> FALSE],
     [name |-> "CancelledError", exception |-> TRUE]}

\* execute_packet_stream starts on a stream
BeginStream(stream) ==
    /\ packet_stream' = stream
    /\ idx' = 0
    /\ inflight' = {}
    /\ successes' = 0
    /\ failures' = 0
    /\ execId' = execId + 1

\* the record of the stream execution that ends now
EndedExec(outcome) ==
    [exec |-> execId, phase |-> Phase(pc), outcome |-> outcome, n |-> Len(packet_stream),
     taken |-> idx, successes |-> successes, failures |-> failures]

\* a close sequence that leaves the flag set
StartCloseKeepsFlag ==
    /\ initialized' = initialized
    /\ BeginStream(PreparedTraffic("exit"))
    /\ pc' = "close_exec"
    /\ trace' = Append(trace, "close")

\* DuckyOne2RGB._close_connection: RGBKeyboard._close_connection, then the
\* "exit" prepared stream
StartClose ==
    /\ initialized' = FALSE
    /\ BeginStream(PreparedTraffic("exit"))
    /\ pc' = "close_exec"
    /\ trace' = Append(trace, "close")

\* an exception leaves the code the task is running
Unwind(err) ==
    /\ lastExec' = IF Executing THEN EndedExec(err.name) ELSE lastExec
    /\ IF pc \in {"init_exec", "init_sleep", "loop", "push_exec"} /\ Catches(err)
       THEN StartClose
       ELSE /\ pc' = CASE pc = "close_exec" -> "raised"
                       [] pc \in {"ext_exec", "ext_prepared"} -> "ext_done"
                       [] OTHER -> "cancelled"
            /\ inflight' = {}
            /\ UNCHANGED <<initialized, packet_stream, idx, successes, failures, execId, trace>>

\* for packet in packet_stream: ... self._handle_packet(packet) starts
HandleStart ==
    /\ Executing
    /\ idx < Len(packet_stream)
    /\ AwaitDone(inflight)
    /\ idx' = idx + 1
    /\ inflight' = inflight \cup {idx + 1}
    /\ wire' = Append(wire, [exec |-> execId, i |-> idx + 1, phase |-> Phase(pc),
                             op |-> IF packet_stream[idx + 1].outbound THEN "send" ELSE "recv"])
    /\ UNCHANGED <<pc, initialized, must_cancel, keyColor, packet_stream, successes, failures,
                   cycles, rejected, execId, lastRet, lastExec, faulted, trace>>
    /\ UNCHANGED <<hookVars, reactVars, libVars>>

\* successes += 1 / failures += 1
Count(i, value, result) ==
    /\ lastRet' = [exec |-> execId, i |-> i, outbound |-> packet_stream[i].outbound,
                   value |-> value, result |-> result]
    /\ successes' = IF result THEN successes + 1 ELSE successes
    /\ failures' = IF result THEN failures ELSE failures + 1
    /\ inflight' = inflight \ {i}

\* the send / recv of a packet returns and the packet is counted
HandleReturn ==
    /\ Executing
    /\ \E i \in inflight :
          IF packet_stream[i].outbound
          THEN \E bytes_written \in SendReturns(packet_stream[i]) :
                  Count(i, bytes_written, send_result(packet_stream[i], bytes_written))
          ELSE \E returned_data \in RecvFrames(packet_stream[i]) :
                  /\ ~recv_raises(returned_data)
                  /\ Count(i, returned_data, recv_result(packet_stream[i], returned_data))
    /\ UNCHANGED <<pc, initialized, must_cancel, keyColor, packet_stream, idx, cycles, rejected,
                   execId, wire, lastExec, faulted, trace>>
    /\ UNCHANGED <<hookVars, reactVars, libVars>>

\* send swallowing the error: the packet is counted as a failure and the loop
\* goes on
TransportErrorSwallowed ==
    /\ Executing
    /\ \E i \in inflight :
          /\ faulted' = [exec |-> execId, i |-> i,
                         op |-> IF packet_stream[i].outbound THEN "send" ELSE "recv"]
          /\ Count(i, 0, FALSE)
    /\ UNCHANGED <<pc, initialized, must_cancel, keyColor, packet_stream, idx, cycles, rejected,
                   execId, wire, lastExec, trace>>
    /\ UNCHANGED <<hookVars, reactVars, libVars>>

\* device.write / device.read raises HIDException, which send logs and raises
\* again
TransportError ==
    /\ Executing
    /\ \E i \in inflight :
          faulted' = [exec |-> execId, i |-> i,
                      op |-> IF packet_stream[i].outbound THEN "send" ELSE "recv"]
    /\ Unwind(HIDException)
    /\ UNCHANGED <<must_cancel, keyColor, cycles, rejected, wire, lastRet>>
    /\ UNCHANGED <<hookVars, reactVars, libVars>>

\* recv returns no data and returned_data[0] raises
EmptyFrame ==
    /\ Executing
    /\ \E i \in inflight :
          /\ ~packet_stream[i].outbound
          /\ \E returned_data \in RecvFrames(packet_stream[i]) : recv_raises(returned_data)
    /\ Unwind(IndexError)
    /\ UNCHANGED <<must_cancel, keyColor, cycles, rejected, wire, lastRet, faulted>>
    /\ UNCHANGED <<hookVars, reactVars, libVars>>

(***************************************************************************)
(* RGBKeyboard / DuckyOne2RGB run loop (src/keyboards/rgbkeyboard.py,      *)
(* src/keyboards/ducky.py).                                                *)
(***************************************************************************)
\* run(): asyncio.run(_main_loop()); _init_connection sets the flag and starts
\* on the "initialize" prepared stream
Run ==
    /\ pc = "idle"
    /\ initialized' = TRUE
    /\ BeginStream(PreparedTraffic("initialize"))
    /\ pc' = "init_exec"
    /\ trace' = Append(trace, "init")
    /\ UNCHANGED <<must_cancel, keyColor, cycles, rejected, wire, lastRet, lastExec, faulted>>
    /\ UNCHANGED <<hookVars, reactVars, libVars>>

\* where the task goes on when execute_packet_stream has returned
AfterStream(p) ==
    CASE p = "init_exec" -> "init_sleep"
      [] p = "push_exec" -> "loop"
      [] p \in {"ext_exec", "ext_prepared"} -> "ext_done"
      [] OTHER -> "done"

\* return successes, failures; when _main_loop returns with it, asyncio ends
\* the task and clears a pending cancellation request (Task.__step)
ExecReturn ==
    /\ Executing
    /\ idx = Len(packet_stream)
    /\ AwaitDone(inflight)
    /\ lastExec' = EndedExec("returned")
    /\ pc' = AfterStream(pc)
    /\ cycles' = IF pc = "push_exec" THEN cycles + 1 ELSE cycles
    /\ must_cancel' = IF AfterStream(pc) = "done" THEN FALSE ELSE must_cancel
    /\ UNCHANGED <<initialized, keyColor, packet_stream, idx, inflight,
                   successes, failures, rejected, execId, wire, lastRet, faulted, trace>>
    /\ UNCHANGED <<hookVars, reactVars, libVars>>

\* await asyncio.sleep(2) of DuckyOne2RGB._init_connection is over
SleepDone ==
    /\ pc = "init_sleep"
    /\ ~must_cancel
    /\ pc' = "loop"
    /\ UNCHANGED <<initialized, must_cancel, keyColor, packet_stream, idx, inflight,
                   successes, failures, cycles, rejected, execId, wire, lastRet, lastExec,
                   faulted, trace>>
    /\ UNCHANGED <<hookVars, reactVars, libVars>>

\* push without its check
uninitialized_use_unchecked(init) == FALSE

\* push: "if not self.initialized: raise NotImplementedError"
uninitialized_use(init) == ~init

\* the colour maps scheme.get_all_colors(Mask.ALL) may return
SchemeColors == {[k \in Range(MaskALL) |-> c] : c \in Palette}

\* push past its check: apply_scheme, packets_to_send, execute_packet_stream
PushBody(next_pc) ==
    \E colors \in SchemeColors :
        /\ keyColor' = apply_scheme(keyColor, colors)
        /\ BeginStream(packets_to_send(keyColor'))
        /\ pc' = next_pc
        /\ trace' = Append(trace, "push")
        /\ UNCHANGED <<initialized, lastExec>>

\* "while True: await self.push()"
Push ==
    /\ pc = "loop"
    /\ cycles < MaxCycles
    /\ IF uninitialized_use(initialized)
       THEN Unwind(NotInitializedError) /\ UNCHANGED keyColor
       ELSE PushBody("push_exec")
    /\ UNCHANGED <<must_cancel, cycles, rejected, wire, lastRet, faulted>>
    /\ UNCHANGED <<hookVars, reactVars, libVars>>

\* push called by other code than the main loop, while the loop is not
\* running: the call runs in a new task, which has no cancellation request
PushOutside ==
    /\ pc \in {"idle", "done", "raised", "cancelled"}
    /\ rejected < MaxRejected
    /\ IF uninitialized_use(initialized)
       THEN /\ rejected' = rejected + 1
            /\ UNCHANGED <<pc, initialized, keyColor, packet_stream, idx, inflight, successes,
                           failures, execId, lastExec, trace>>
       ELSE PushBody("ext_exec") /\ UNCHANGED rejected
    /\ must_cancel' = FALSE
    /\ UNCHANGED <<cycles, wire, lastRet, faulted>>
    /\ UNCHANGED <<hookVars, reactVars, libVars>>

\* execute_prepared_traffic(name) called by other code than the main loop,
\* while the loop is not running: execute_packet_stream starts on the prepared
\* stream of that name, whatever initialized is
ExecutePreparedTraffic ==
    /\ pc \in {"idle", "done", "raised", "cancelled"}
    /\ \E prepared_traffic \in {"initialize", "exit"} :
          BeginStream(PreparedTraffic(prepared_traffic))
    /\ pc' = "ext_prepared"
    /\ must_cancel' = FALSE
    /\ UNCHANGED <<initialized, keyColor, cycles, rejected, wire, lastRet, lastExec, faulted,
                   trace>>
    /\ UNCHANGED <<hookVars, reactVars, libVars>>

\* an external interrupt (SIGINT) while the task runs code: KeyboardInterrupt is
\* raised in the running code, or (asyncio.run since Python 3.11, first
\* interrupt) the task is only asked to cancel
Interrupt ==
    /\ pc \in {"init_exec", "loop", "push_exec", "close_exec"}
    /\ \/ /\ Unwind(KeyboardInterrupt)
          /\ UNCHANGED must_cancel
       \/ /\ ~must_cancel
          /\ must_cancel' = TRUE
          /\ UNCHANGED <<pc, initialized, packet_stream, idx, inflight, successes, failures,
                         execId, lastExec, trace>>
    /\ UNCHANGED <<keyColor, cycles, rejected, wire, lastRet, faulted>>
    /\ UNCHANGED <<hookVars, reactVars, libVars>>

\* the task is cancelled while it is suspended in asyncio.sleep: by an interrupt
\* that arrives during the sleep, or by the cancellation asked for before;
\* the delivery of CancelledError clears the request (Task.__step)
SleepCancelled ==
    /\ pc = "init_sleep"
    /\ \E err \in CancelledErrors : Unwind(err)
    /\ must_cancel' = FALSE
    /\ UNCHANGED <<keyColor, cycles, rejected, wire, lastRet, faulted>>
    /\ UNCHANGED <<hookVars, reactVars, libVars>>

(***************************************************************************)
(* The hook list of RGBKeyboard (src/keyboards/rgbkeyboard.py).  The main  *)
(* thread registers and deregisters hooks, the input-hook thread runs      *)
(* _hook_callback.  A hook list is a Python list object: the iterator of   *)
(* _hook_callback holds the object it started on and an index into it.     *)
(***************************************************************************)
Hooks == {"h1", "h2"}

\* number of entries of a hook list
MaxHooks == 3

\* the argument tuples of _add_hooks / _remove_hooks: one hook (scheme.hook) or
\* two (*scheme.hooks)
HookTuples ==
    {<<a>> : a \in Hooks} \cup {t \in Hooks \X Hooks : t[1] # t[2]}

NoLayerCall == [op |-> "none", scheme |-> "", raised |-> FALSE]

NoKeyEvent == [fired |-> FALSE, to |-> << >>, layers |-> << >>]

\* RGBKeyboard.__init__: self._hooks_list = []
InitHooks ==
    /\ hooks_list = << >>
    /\ it_active = FALSE
    /\ it_detached = FALSE
    /\ it_list = << >>
    /\ it_pos = 0
    /\ received = [h \in Hooks |-> 0]
    /\ stable = {}
    /\ delivered = FALSE
    /\ mutated = FALSE
    /\ remove_raised = FALSE
    /\ kb_layers = << >>
    /\ kb_call = NoLayerCall
    /\ kb_event = NoKeyEvent
    /\ kb_pc = "idle"

\* the list object the iterator of _hook_callback walks
IteratedList == IF it_detached THEN it_list ELSE hooks_list

\* list += tuple: the list object is extended in place
list_iadd(list, hooks) == list \o hooks

\* list -= tuple: Python lists have no subtraction, TypeError is raised and the
\* list is as before
list_isub(list, hooks) == [raises |-> TRUE, list |-> list]

\* what stays of the hooks registered since the delivery began
StillRegistered(after) == IF it_active THEN stable \cap after ELSE stable

\* a change of the hook list that runs while a delivery is under way
Interleaved == IF it_active THEN TRUE ELSE mutated

\* _add_hooks(*hooks)
AddHooks ==
    /\ kb_pc = "idle"
    /\ \E hooks \in HookTuples :
          /\ Len(hooks_list) + Len(hooks) <= MaxHooks
          /\ hooks_list' = list_iadd(hooks_list, hooks)
    /\ mutated' = Interleaved
    /\ UNCHANGED <<it_active, it_detached, it_list, it_pos, received, stable, delivered,
                   remove_raised, layerVars>>
    /\ UNCHANGED <<runVars, reactVars, libVars>>

\* _remove_hooks(*hooks)
RemoveHooks ==
    /\ kb_pc = "idle"
    /\ \E hooks \in HookTuples :
          LET r == list_isub(hooks_list, hooks)
          IN  /\ hooks_list' = r.list
              /\ remove_raised' = IF r.raises THEN TRUE ELSE remove_raised
              /\ stable' = StillRegistered(Range(r.list))
    /\ mutated' = Interleaved
    /\ UNCHANGED <<it_active, it_detached, it_list, it_pos, received, delivered, layerVars>>
    /\ UNCHANGED <<runVars, reactVars, libVars>>

\* reset_layers: self.scheme.clear_schemes() and self._hooks_list = [], a new
\* list object; a running iterator keeps the old one
ResetLayers ==
    /\ kb_pc = "idle"
    /\ kb_layers' = << >>
    /\ kb_call' = [op |-> "reset_layers", scheme |-> "", raised |-> FALSE]
    /\ hooks_list' = << >>
    /\ IF it_active /\ ~it_detached
       THEN it_detached' = TRUE /\ it_list' = hooks_list
       ELSE UNCHANGED <<it_detached, it_list>>
    /\ stable' = StillRegistered({})
    /\ mutated' = Interleaved
    /\ kb_event' = NoKeyEvent
    /\ UNCHANGED <<it_active, it_pos, received, delivered, remove_raised, kb_pc>>
    /\ UNCHANGED <<runVars, reactVars, libVars>>

\* _hook_callback(event) starts: "for hook in self._hooks_list"
HookCallbackStart ==
    /\ ~it_active
    /\ it_active' = TRUE
    /\ it_detached' = FALSE
    /\ it_list' = << >>
    /\ it_pos' = 0
    /\ received' = [h \in Hooks |-> 0]
    /\ stable' = Range(hooks_list)
    /\ mutated' = FALSE
    /\ delivered' = FALSE
    /\ UNCHANGED <<hooks_list, remove_raised, layerVars>>
    /\ UNCHANGED <<runVars, reactVars, libVars>>

\* the list iterator yields the next hook and hook(event) runs
HookCallbackNext ==
    /\ it_active
    /\ it_pos < Len(IteratedList)
    /\ received' = [received EXCEPT ![IteratedList[it_pos + 1]] = @ + 1]
    /\ it_pos' = it_pos + 1
    /\ UNCHANGED <<hooks_list, it_active, it_detached, it_list, stable, delivered, mutated,
                   remove_raised, layerVars>>
    /\ UNCHANGED <<runVars, reactVars, libVars>>

\* the list iterator is exhausted and _hook_callback returns
HookCallbackEnd ==
    /\ it_active
    /\ it_pos >= Len(IteratedList)
    /\ it_active' = FALSE
    /\ it_detached' = FALSE
    /\ it_list' = << >>
    /\ delivered' = TRUE
    /\ UNCHANGED <<hooks_list, it_pos, received, stable, mutated, remove_raised, layerVars>>
    /\ UNCHANGED <<runVars, reactVars, libVars>>

(***************************************************************************)
(* ReactiveFunction (src/lighting/colorfunctions.py).  Times are in ticks  *)
(* of 1/8 s.  The input-hook thread runs the press / release callbacks,     *)
(* the main thread runs get.                                               *)
(***************************************************************************)
\* decay = 0.25 s, in ticks
Decay == 2

\* the wall clock when the function is built: far from time 0
Epoch == 10 * Decay

\* number of clock ticks that are explored
MaxTicks == 3

\* the keys a function is built for: an ordinary key, the key of the "Right"
\* class with the same scan code, and one of the "Numpad" class
TrackedKeys == {"LeftControl", "RightControl", "N1"}

\* the key events of the keyboard package, by the attributes the callbacks read:
\* scan_code, is_keypad and name.startswith("right")
KeyEvents ==
    [scan_code : {key_codes[k] : k \in TrackedKeys}, is_keypad : BOOLEAN, name_right : BOOLEAN]

\* the colour of the wrapped lower function
LowerColor == Color(80, 0, 255)

\* the lower functions a ReactiveFunction is built from: a plain callable, or
\* a ColorFunction, which __init__ wraps in callable_function
LowerFunctions == {"callable", "ColorFunction"}

\* self.lower_function(*args, **kwargs): the plain callable returns its colour;
\* callable_function evaluates lower_function.get, and since __init__ has
\* rebound the name lower_function to callable_function itself, this is the
\* attribute get of a function: AttributeError
call_lower(lower) ==
    IF lower = "ColorFunction"
    THEN [raises |-> TRUE, color |-> Black]
    ELSE [raises |-> FALSE, color |-> LowerColor]

NoTime == 0 - 1

NoSnap == [on |-> FALSE, last_release |-> NoTime]

NoGot == [valid |-> FALSE, raised |-> FALSE, fresh |-> FALSE, scalar |-> <<0, 1>>, color |-> Black]

\* no key event was observed yet
NoEvent == [kind |-> "none", seq |-> 0]

\* ReactiveFunction.__init__
InitReactive(keys, lowers) ==
    /\ rkey \in keys
    /\ lower_function \in lowers
    /\ on = FALSE
    /\ start_time = 0
    /\ now = Epoch
    /\ rel_pc = "idle"
    /\ get_pc = "idle"
    /\ cur_time = 0
    /\ scalar = <<0, 1>>
    /\ last_match = "none"
    /\ last_release = NoTime
    /\ snap = NoSnap
    /\ overlap = FALSE
    /\ got = NoGot
    /\ last_event = NoEvent

\* int(x) of Python for the fraction a / b, b > 0: truncation towards zero
IntTrunc(a, b) == IF a >= 0 THEN a \div b ELSE 0 - ((0 - a) \div b)

\* scale_map, as the fraction <<numerator, denominator>>
scale_map(x, in_min, in_max, out_min, out_max) ==
    <<(x - in_min) * (out_max - out_min) + out_min * (in_max - in_min), in_max - in_min>>

\* Color.__mul__ by the fraction s
color_mul(c, s) ==
    Color(IntTrunc(c[1] * s[1], s[2]), IntTrunc(c[2] * s[1], s[2]), IntTrunc(c[3] * s[1], s[2]))

\* a press callback that looks at the scan code only
press_sets_on_by_code(key, event) == key_codes[key] = event.scan_code

\* _callback_on_press: TRUE when the callback sets self.on = True
press_sets_on(key, event) ==
    IF key_codes[key] = event.scan_code
    THEN IF key \in special_keys["Right"]
         THEN event.name_right /\ ~event.is_keypad
         ELSE IF key \in special_keys["Numpad"]
              THEN event.is_keypad
              ELSE ~(event.is_keypad \/ event.name_right)
    ELSE FALSE

\* a release callback that looks at the scan code only
release_sets_off_by_code(key, event) == key_codes[key] = event.scan_code

\* _callback_on_release: TRUE when the callback sets self.on = False and
\* self.start_time
release_sets_off(key, event) ==
    IF key_codes[key] = event.scan_code
    THEN IF key \in special_keys["Right"]
         THEN event.name_right /\ ~event.is_keypad
         ELSE IF key \in special_keys["Numpad"]
              THEN event.is_keypad
              ELSE ~(event.is_keypad \/ event.name_right)
    ELSE FALSE

\* the class of a tracked key and the events that are events of that key
EventOfKey(key, event) ==
    /\ event.scan_code = key_codes[key]
    /\ \/ key \in special_keys["Right"] /\ event.name_right /\ ~event.is_keypad
       \/ key \in special_keys["Numpad"] /\ key \notin special_keys["Right"] /\ event.is_keypad
       \/ /\ key \notin special_keys["Right"] \cup special_keys["Numpad"]
          /\ ~event.is_keypad
          /\ ~event.name_right

\* an event or reset that runs while get is running (a release callback that
\* is under way when get starts does so too)
Overlapping == IF get_pc # "idle" THEN TRUE ELSE overlap

\* _callback_on_press(event)
PressBody(event) ==
    /\ rel_pc = "idle"
    /\ on' = IF press_sets_on(rkey, event) THEN TRUE ELSE on
    /\ last_match' = IF EventOfKey(rkey, event) THEN "press" ELSE last_match
    /\ overlap' = IF on' # on THEN Overlapping ELSE overlap
    /\ got' = IF EventOfKey(rkey, event) THEN [got EXCEPT !.fresh = FALSE] ELSE got
    /\ UNCHANGED <<rkey, lower_function, start_time, now, rel_pc, get_pc, cur_time, scalar, last_release, snap>>
    /\ UNCHANGED <<runVars, hookVars, libVars>>

\* _callback_on_release(event), up to self.on = False
ReleaseBody(event) ==
    /\ rel_pc = "idle"
    /\ IF release_sets_off(rkey, event)
       THEN on' = FALSE /\ rel_pc' = "set_time" /\ overlap' = Overlapping
       ELSE UNCHANGED <<on, rel_pc, overlap>>
    /\ last_match' = IF EventOfKey(rkey, event) THEN "release" ELSE last_match
    /\ got' = IF EventOfKey(rkey, event) THEN [got EXCEPT !.fresh = FALSE] ELSE got
    /\ UNCHANGED <<rkey, lower_function, start_time, now, get_pc, cur_time, scalar, last_release, snap>>
    /\ UNCHANGED <<runVars, hookVars, libVars>>

\* a press event is handed to _callback_on_press
OnPress ==
    /\ \E event \in KeyEvents : PressBody(event)
    /\ UNCHANGED last_event

\* a release event is handed to _callback_on_release: self.on = False
OnRelease ==
    /\ \E event \in KeyEvents : ReleaseBody(event)
    /\ UNCHANGED last_event

\* what the next observed event is recorded as
Observed(kind, event) == [kind |-> kind, event |-> event, seq |-> 1 - last_event.seq]

\* a press event is handed to _callback_on_press, and observed
PressObserved ==
    \E event \in KeyEvents :
        /\ PressBody(event)
        /\ last_event' = Observed("press", event)

\* a release event is handed to _callback_on_release, and observed
ReleaseObserved ==
    \E event \in KeyEvents :
        /\ ReleaseBody(event)
        /\ last_event' = Observed("release", event)

\* _callback_on_release goes on: self.start_time = time.time()
ReleaseSetTime ==
    /\ rel_pc = "set_time"
    /\ start_time' = now
    /\ last_release' = now
    /\ rel_pc' = "idle"
    /\ overlap' = Overlapping
    /\ got' = [got EXCEPT !.fresh = FALSE]
    /\ UNCHANGED <<rkey, lower_function, on, now, get_pc, cur_time, scalar, last_match, snap>>
    /\ UNCHANGED <<runVars, hookVars, libVars, last_event>>

\* reset(): self.start_time = time.time()
Reset ==
    /\ start_time' = now
    /\ overlap' = Overlapping
    /\ UNCHANGED <<rkey, lower_function, on, now, rel_pc, get_pc, cur_time, scalar, last_match, last_release,
                   snap, got>>
    /\ UNCHANGED <<runVars, hookVars, libVars, last_event>>

\* get: cur_time = time.time()
GetStart ==
    /\ get_pc = "idle"
    /\ cur_time' = now
    /\ get_pc' = "read_on"
    /\ snap' = [on |-> on, last_release |-> last_release]
    /\ overlap' = (rel_pc # "idle")
    /\ UNCHANGED <<rkey, lower_function, on, start_time, now, rel_pc, scalar, last_match, last_release, got>>
    /\ UNCHANGED <<runVars, hookVars, libVars, last_event>>

\* get: "if self.on: scalar = 1"
GetReadOn ==
    /\ get_pc = "read_on"
    /\ IF on
       THEN scalar' = <<1, 1>> /\ get_pc' = "return"
       ELSE scalar' = scalar /\ get_pc' = "compare"
    /\ UNCHANGED <<rkey, lower_function, on, start_time, now, rel_pc, cur_time, last_match, last_release, snap,
                   overlap, got>>
    /\ UNCHANGED <<runVars, hookVars, libVars, last_event>>

\* get: "elif cur_time - self.start_time <= self.decay: ... else: scalar = 0"
GetCompare ==
    /\ get_pc = "compare"
    /\ IF cur_time - start_time <= Decay
       THEN scalar' = scalar /\ get_pc' = "scale"
       ELSE scalar' = <<0, 1>> /\ get_pc' = "return"
    /\ UNCHANGED <<rkey, lower_function, on, start_time, now, rel_pc, cur_time, last_match, last_release, snap,
                   overlap, got>>
    /\ UNCHANGED <<runVars, hookVars, libVars, last_event>>

\* get: scalar = scale_map(cur_time - self.start_time, 0, self.decay, 1, 0)
GetScale ==
    /\ get_pc = "scale"
    /\ scalar' = scale_map(cur_time - start_time, 0, Decay, 1, 0)
    /\ get_pc' = "return"
    /\ UNCHANGED <<rkey, lower_function, on, start_time, now, rel_pc, cur_time, last_match, last_release, snap,
                   overlap, got>>
    /\ UNCHANGED <<runVars, hookVars, libVars, last_event>>

\* get: return self.lower_function(*args, **kwargs) * scalar
GetReturn ==
    /\ get_pc = "return"
    /\ LET lower == call_lower(lower_function)
       IN  got' = IF lower.raises
                  THEN [NoGot EXCEPT !.raised = TRUE]
                  ELSE [valid |-> TRUE, raised |-> FALSE, fresh |-> ~overlap, scalar |-> scalar,
                        color |-> color_mul(lower.color, scalar)]
    /\ get_pc' = "idle"
    /\ cur_time' = 0
    /\ scalar' = <<0, 1>>
    /\ snap' = NoSnap
    /\ overlap' = FALSE
    /\ UNCHANGED <<rkey, lower_function, on, start_time, now, rel_pc, last_match, last_release>>
    /\ UNCHANGED <<runVars, hookVars, libVars, last_event>>

\* the wall clock advances
Tick ==
    /\ now < Epoch + MaxTicks
    /\ now' = now + 1
    /\ UNCHANGED <<rkey, lower_function, on, start_time, rel_pc, get_pc, cur_time, scalar, last_match,
                   last_release, snap, overlap, got, last_event>>
    /\ UNCHANGED <<runVars, hookVars, libVars, last_event>>

NextReactive ==
    \/ OnPress
    \/ OnRelease
    \/ ReleaseSetTime
    \/ Reset
    \/ GetStart
    \/ GetReadOn
    \/ GetCompare
    \/ GetScale
    \/ GetReturn
    \/ Tick

\* the callbacks alone, every event observed
NextCallbacks ==
    \/ PressObserved
    \/ ReleaseObserved
    \/ ReleaseSetTime
    \/ Tick

(***************************************************************************)
(* KeyColorManager as an object of its own: the Ducky One 2 RGB manager    *)
(* whose key colours are set one by one, and a manager with a layout that  *)
(* is supplied from outside (src/keyboards/rgbkeyboard.py, ducky.py).      *)
(***************************************************************************)
\* the keys whose colour is set, and the colours they are set to
EncKeys == {"Escape", "A", "RightEnter"}

EncColors == {Color(255, 1, 2), Color(80, 0, 255)}

\* number of keys of the supplied layout
GenKeyCount == 2

\* the layout entries (packet_number, offset) of the supplied layout: all three
\* bytes of a key lie within the 8 data packets
GenEntries ==
    {e \in {0, 6, 7} \X {8, 59, 61, 62, 63} :
        ByteTarget(e[1], e[2], 2)[1] < NumPackets}

\* the colours of the supplied layout's keys
GenColors == {Color(11, 12, 13), Color(21, 22, 23)}

\* KeyData(color, packet_number, offset)
KeyData(color, packet_number, offset) ==
    [color |-> color, packet_number |-> packet_number, offset |-> offset]

NoStream == << >>

NoData == [raised |-> FALSE, data_arrays |-> << >>]

\* the managers after construction; the supplied layout is one of layouts
InitEncode(layouts) ==
    /\ kcm_keys = InitialKeyColor
    /\ kcm_stream = NoStream
    /\ gen_keys \in layouts
    /\ gen_data = NoData

\* the layouts of GenKeyCount keys, every key black
GenLayouts ==
    {[i \in 1..GenKeyCount |-> KeyData(Black, es[i][1], es[i][2])] :
        es \in [1..GenKeyCount -> GenEntries]}

\* the layout the other specifications start with
OneLayout == {[i \in 1..GenKeyCount |-> KeyData(Black, 0, 8 + 3 * (i - 1))]}

\* "Apply key data" for any layout: the writes in the order of self.keys.items()
KeyWrites(keys) ==
    [w \in 1..(3 * Len(keys)) |->
        LET key == keys[(w - 1) \div 3 + 1]
            x == (w - 1) % 3
        IN  [target |-> ByteTarget(key.packet_number, key.offset, x),
             byte |-> key.color[x + 1]]]

\* data_arrays[packet][offset] exists
InArrays(target) ==
    /\ target[1] \in 0..(NumPackets - 1)
    /\ target[2] \in 0..(PacketSize - 1)

RECURSIVE ApplyKeyData(_, _, _)
\* data_arrays after the first n writes
ApplyKeyData(data, writes, n) ==
    IF n = 0
    THEN data
    ELSE LET d == ApplyKeyData(data, writes, n - 1)
             w == writes[n]
         IN  [d EXCEPT ![w.target[1] + 1][w.target[2] + 1] = w.byte]

\* data_arrays of packets_to_send for any layout; IndexError when a write is
\* outside the arrays
data_arrays_of(keys) ==
    LET writes == KeyWrites(keys)
    IN  IF \E w \in DOMAIN writes : ~InArrays(writes[w].target)
        THEN [raised |-> TRUE, data_arrays |-> << >>]
        ELSE [raised |-> FALSE,
              data_arrays |-> ApplyKeyData([n \in 1..NumPackets |-> HeaderArray(n - 1)],
                                           writes, Len(writes))]

\* set_key_color(key, color) on the Ducky manager
SetKeyColor ==
    /\ \E key \in EncKeys, color \in EncColors \cup {Black} :
          kcm_keys' = [kcm_keys EXCEPT ![key] = color]
    /\ UNCHANGED <<kcm_stream, gen_keys, gen_data>>
    /\ UNCHANGED exceptEnc

\* reset_colors() on the Ducky manager: every key becomes Color(0, 0, 0)
ResetColors ==
    /\ kcm_keys' = [key \in DOMAIN kcm_keys |-> Black]
    /\ UNCHANGED <<kcm_stream, gen_keys, gen_data>>
    /\ UNCHANGED exceptEnc

\* packets_to_send() on the Ducky manager
PacketsToSend ==
    /\ kcm_stream' = packets_to_send(kcm_keys)
    /\ UNCHANGED <<kcm_keys, gen_keys, gen_data>>
    /\ UNCHANGED exceptEnc

\* set_key_color(key, color) on the manager with the supplied layout
GenSetKeyColor ==
    /\ \E i \in 1..GenKeyCount, color \in GenColors :
          gen_keys' = [gen_keys EXCEPT ![i].color = color]
    /\ gen_data' = NoData
    /\ UNCHANGED <<kcm_keys, kcm_stream>>
    /\ UNCHANGED exceptEnc

\* reset_colors() on the manager with the supplied layout
GenResetColors ==
    /\ gen_keys' = [i \in DOMAIN gen_keys |-> [gen_keys[i] EXCEPT !.color = Black]]
    /\ gen_data' = NoData
    /\ UNCHANGED <<kcm_keys, kcm_stream>>
    /\ UNCHANGED exceptEnc

\* the data arrays packets_to_send() builds on that manager
GenPacketsToSend ==
    /\ gen_data' = data_arrays_of(gen_keys)
    /\ UNCHANGED <<kcm_keys, kcm_stream, gen_keys>>
    /\ UNCHANGED exceptEnc

NextEncode ==
    \/ SetKeyColor
    \/ ResetColors
    \/ PacketsToSend

NextLayout ==
    \/ GenSetKeyColor
    \/ GenResetColors
    \/ GenPacketsToSend

(***************************************************************************)
(* CombiningScheme (package lighting): the ordered layer stack and its     *)
(* get_all_colors.  The layers are SolidColorSchemes; the colours are      *)
(* merged with the operations of Color (src/backend/utils.py).             *)
(***************************************************************************)
\* number of layers that are explored
MaxLayers == 2

CmbColors == {Black, Color(10, 0, 0), Color(5, 0, 0), Color(250, 3, 0)}

CombineType == {"Overlay", "Add", "Subtract"}

\* the masks of the layers and of the calls: Mask.ALL and the mask of key A
CmbMasks == {Range(MaskALL), {"A"}}

Layer(color, combine_type, mask) ==
    [color |-> color, combine_type |-> combine_type, mask |-> mask]

NoColors == [computed |-> FALSE, mask |-> {}, layers |-> << >>, colors |-> << >>]

InitCombine ==
    /\ cmb_layers = << >>
    /\ cmb_out = NoColors

\* a test for black that never answers yes
is_zero_never(c) == FALSE

\* Color.is_zero
is_zero(c) == c[1] = 0 /\ c[2] = 0 /\ c[3] = 0

\* an addition of bytes that wraps around
color_add_wrapping(a, b) == <<(a[1] + b[1]) % 256, (a[2] + b[2]) % 256, (a[3] + b[3]) % 256>>

\* Color.__add__ of two Colors
color_add(a, b) == Color(a[1] + b[1], a[2] + b[2], a[3] + b[3])

\* Color.__sub__ of two Colors
color_sub(a, b) == Color(a[1] - b[1], a[2] - b[2], a[3] - b[3])

\* SolidColorScheme.get_all_colors: the one colour for exactly the keys of mask
solid_colors(color, mask) == [k \in mask |-> color]

\* one colour of a layer merged onto the accumulated colour
merge(acc, color, combine_type) ==
    CASE combine_type = "Overlay" -> IF is_zero(color) THEN acc ELSE color
      [] combine_type = "Add" -> color_add(acc, color)
      [] combine_type = "Subtract" -> color_sub(acc, color)

\* the accumulator over mask after the first n layers
RECURSIVE compose(_, _, _)
compose(layers, n, mask) ==
    IF n = 0
    THEN [k \in mask |-> Black]
    ELSE LET acc == compose(layers, n - 1, mask)
             colors == solid_colors(layers[n].color, mask \cap layers[n].mask)
         IN  [k \in mask |->
                 IF k \in DOMAIN colors
                 THEN merge(acc[k], colors[k], layers[n].combine_type)
                 ELSE acc[k]]

\* CombiningScheme.get_all_colors(mask)
get_all_colors(layers, mask) == compose(layers, Len(layers), mask)

\* add_layer(SolidColorScheme(color), combine_type, mask)
AddLayer ==
    /\ Len(cmb_layers) < MaxLayers
    /\ \E color \in CmbColors, combine_type \in CombineType, mask \in CmbMasks :
          cmb_layers' = Append(cmb_layers, Layer(color, combine_type, mask))
    /\ cmb_out' = NoColors
    /\ UNCHANGED exceptCmb

\* colors = self.scheme.get_all_colors(mask)
GetAllColors ==
    /\ \E mask \in CmbMasks :
          cmb_out' = [computed |-> TRUE, mask |-> mask, layers |-> cmb_layers,
                      colors |-> get_all_colors(cmb_layers, mask)]
    /\ UNCHANGED cmb_layers
    /\ UNCHANGED exceptCmb

NextCombine ==
    \/ AddLayer
    \/ GetAllColors

(***************************************************************************)
(* Packet.build_packet, Packet.__str__ and the loading of a PacketStream   *)
(* from a traffic file (src/keyboards/hid/hidinterfacing.py).  A string is *)
(* a sequence of characters.                                               *)
(***************************************************************************)
\* length of the data strings that are explored
MaxHexLen == 4

\* number of lines of the files that are explored
MaxLines == 2

\* the characters of the data strings: hex digits of both cases, a character
\* that is no hex digit, and white space
DataChars == {"0", "1", "2", "B", "g", " "}

Directions == {"O", "I", "X"}

DataStrings == UNION {[1..n -> DataChars] : n \in 0..MaxHexLen}

\* the value of a hex digit, as int(c, 16)
HexValue ==
    [c \in {"0", "1", "2", "3", "4", "5", "6", "7", "8", "9",
            "a", "b", "c", "d", "e", "f", "A", "B", "C", "D", "E", "F"} |->
        CASE c = "0" -> 0 [] c = "1" -> 1 [] c = "2" -> 2 [] c = "3" -> 3
          [] c = "4" -> 4 [] c = "5" -> 5 [] c = "6" -> 6 [] c = "7" -> 7
          [] c = "8" -> 8 [] c = "9" -> 9
          [] c \in {"a", "A"} -> 10 [] c \in {"b", "B"} -> 11
          [] c \in {"c", "C"} -> 12 [] c \in {"d", "D"} -> 13
          [] c \in {"e", "E"} -> 14 [] c \in {"f", "F"} -> 15]

\* the digits of bytes.hex()
HexDigits == <<"0", "1", "2", "3", "4", "5", "6", "7", "8", "9", "a", "b", "c", "d", "e", "f">>

\* bytearray.fromhex(s) from position i on: pairs of hex digits, white space
\* between the pairs is skipped; ok is FALSE for ValueError
RECURSIVE fromhex_from(_, _)
fromhex_from(s, i) ==
    IF i > Len(s)
    THEN [ok |-> TRUE, bytes |-> << >>]
    ELSE IF s[i] = " "
    THEN fromhex_from(s, i + 1)
    ELSE IF i + 1 <= Len(s) /\ s[i] \in DOMAIN HexValue /\ s[i + 1] \in DOMAIN HexValue
    THEN LET rest == fromhex_from(s, i + 2)
         IN  [ok |-> rest.ok,
              bytes |-> <<16 * HexValue[s[i]] + HexValue[s[i + 1]]>> \o rest.bytes]
    ELSE [ok |-> FALSE, bytes |-> << >>]

\* bytearray.hex()
RECURSIVE hex(_)
hex(data) ==
    IF data = << >>
    THEN << >>
    ELSE <<HexDigits[(Head(data) \div 16) + 1], HexDigits[(Head(data) % 16) + 1]>>
             \o hex(Tail(data))

NoPacket == Packet(FALSE, << >>, 0)

Raised(exception) == [status |-> exception, packet |-> NoPacket]

\* a build_packet that keeps the report id in the data
build_packet_keeps_id(optimize, direction, data_string) ==
    IF ~optimize /\ Len(data_string) % 2 # 0
    THEN Raised("AssertionError")
    ELSE LET data == fromhex_from(data_string, 1)
         IN  IF ~data.ok
             THEN Raised("ValueError")
             ELSE IF data.bytes = << >>
             THEN Raised("IndexError")
             ELSE [status |-> "ok",
                   packet |-> Packet(direction = "O", data.bytes, Head(data.bytes))]

\* Packet.build_packet; optimize: the interpreter runs with -O and skips the
\* assert statement
build_packet(optimize, direction, data_string) ==
    IF ~optimize /\ Len(data_string) % 2 # 0
    THEN Raised("AssertionError")
    ELSE LET data == fromhex_from(data_string, 1)
         IN  IF ~data.ok
             THEN Raised("ValueError")
             ELSE IF data.bytes = << >>
             THEN Raised("IndexError")
             ELSE [status |-> "ok",
                   packet |-> Packet(direction = "O", Tail(data.bytes), Head(data.bytes))]

\* Packet.__str__
packet_str(packet) ==
    <<IF packet.outbound THEN "O" ELSE "I", " ">> \o hex(packet.data)

NoCall == [status |-> "none", packet |-> NoPacket, text |-> << >>]

PacketInputs == [optimize : BOOLEAN, direction : Directions, data_string : DataStrings]

OnePacketInput == {[optimize |-> FALSE, direction |-> "O", data_string |-> <<"0", "1", "0", "2">>]}

\* the lines of the files, without their line end
LineBodies ==
    { << >>,
      <<"#", " ", "c">>,
      <<"O", " ", "0", "1", "0", "2">>,
      <<"I", " ", "0", "1">>,
      <<"O", " ", "0", "1", "2">>,
      <<"I", " ", "0", "g">>,
      <<"O">> }

\* the text of the file with these lines; the last line end is there or not
RECURSIVE FileText(_, _)
FileText(bodies, final_newline) ==
    IF bodies = << >>
    THEN << >>
    ELSE IF Len(bodies) = 1
    THEN Head(bodies) \o (IF final_newline THEN <<"\n">> ELSE << >>)
    ELSE Head(bodies) \o <<"\n">> \o FileText(Tail(bodies), final_newline)

FileInputs ==
    {[optimize |-> o, text |-> FileText(bodies, nl)] :
        o \in BOOLEAN, nl \in BOOLEAN,
        bodies \in UNION {[1..n -> LineBodies] : n \in 0..MaxLines}}

OneFileInput == {[optimize |-> FALSE, text |-> FileText(<<<<"O", " ", "0", "1", "0", "2">>>>, TRUE)]}

NoLoad == [status |-> "none", packets |-> << >>]

InitPacket(packet_inputs, file_inputs) ==
    /\ pkt_in \in packet_inputs
    /\ pkt_out = NoCall
    /\ file_in \in file_inputs
    /\ file_out = NoLoad

\* what iterating over a text file yields: the lines with their line end,
\* the last one without it when the text does not end with one
RECURSIVE file_lines(_, _)
file_lines(text, line) ==
    IF text = << >>
    THEN IF line = << >> THEN << >> ELSE <<line>>
    ELSE IF Head(text) = "\n"
    THEN <<Append(line, "\n")>> \o file_lines(Tail(text), << >>)
    ELSE file_lines(Tail(text), Append(line, Head(text)))

\* s[2:-1]
slice_2_to_last(s) == IF Len(s) >= 4 THEN SubSeq(s, 3, Len(s) - 1) ELSE << >>

\* the body of the loop of _setup_packets_from_file for one line
load_line(optimize, line) ==
    IF line # << >> /\ line[1] \in {"I", "O"}
    THEN build_packet(optimize, line[1], slice_2_to_last(line))
    ELSE [status |-> "skip", packet |-> NoPacket]

\* _setup_packets_from_file over the lines from position i on, packets so far
RECURSIVE setup_packets(_, _, _, _)
setup_packets(optimize, lines, i, packets) ==
    IF i > Len(lines)
    THEN [status |-> "ok", packets |-> packets]
    ELSE LET r == load_line(optimize, lines[i])
         IN  IF r.status = "skip"
             THEN setup_packets(optimize, lines, i + 1, packets)
             ELSE IF r.status = "ok"
             THEN setup_packets(optimize, lines, i + 1, Append(packets, r.packet))
             ELSE [status |-> r.status, packets |-> << >>]

\* PacketStream._setup_packets_from_file
setup_packets_from_file(optimize, text) ==
    setup_packets(optimize, file_lines(text, << >>), 1, << >>)

\* packet = Packet.build_packet(direction, data_string)
BuildPacket ==
    /\ pkt_out.status = "none"
    /\ LET r == build_packet(pkt_in.optimize, pkt_in.direction, pkt_in.data_string)
       IN  pkt_out' = [status |-> r.status, packet |-> r.packet, text |-> << >>]
    /\ UNCHANGED <<pkt_in, file_in, file_out>>
    /\ UNCHANGED exceptPkt

\* str(packet)
Serialize ==
    /\ pkt_out.status = "ok"
    /\ pkt_out.text = << >>
    /\ pkt_out' = [pkt_out EXCEPT !.text = packet_str(pkt_out.packet)]
    /\ UNCHANGED <<pkt_in, file_in, file_out>>
    /\ UNCHANGED exceptPkt

\* PacketStream(file_path = ...)
LoadFile ==
    /\ file_out.status = "none"
    /\ file_out' = setup_packets_from_file(file_in.optimize, file_in.text)
    /\ UNCHANGED <<pkt_in, pkt_out, file_in>>
    /\ UNCHANGED exceptPkt

NextPacket ==
    \/ BuildPacket
    \/ Serialize

NextFile ==
    \/ LoadFile

(***************************************************************************)
(* The operations of Color (src/backend/utils.py) on one object; an        *)
(* operator that returns a new Color makes that the object looked at.      *)
(***************************************************************************)
\* number of operations in a row that are explored
MaxColorOps == 2

\* the integers of the explored calls
ColorInts == {0 - 1, 1, 255, 300}

\* the Colors of the explored calls
ColorOperands == {Color(255, 1, 0), Color(1, 128, 255)}

\* the scale values of the explored calls, as fractions
Scalars == {<<0 - 1, 1>>, <<0, 1>>, <<1, 2>>, <<3, 2>>, <<300, 1>>}

\* int(round(a / b)) of Python, b > 0: to the nearest integer, a half to the
\* even one
RoundHalfEven(a, b) ==
    LET q == a \div b
        r == a - q * b
    IN  IF 2 * r < b THEN q
        ELSE IF 2 * r > b THEN q + 1
        ELSE IF q % 2 = 0 THEN q ELSE q + 1

\* Color.scale
color_scale(c, s) ==
    Color(RoundHalfEven(c[1] * s[1], s[2]), RoundHalfEven(c[2] * s[1], s[2]),
          RoundHalfEven(c[3] * s[1], s[2]))

\* Color.__rsub__: int - Color
color_rsub(c, n) == Color(n - c[1], n - c[2], n - c[3])

ColorOp(name, before, arg) == [name |-> name, before |-> before, arg |-> arg]

InitColor ==
    /\ col = Black
    /\ col_op = ColorOp("Color", Black, <<0, 0, 0>>)
    /\ col_ops = 0

\* the object becomes value by the operation name with the operand arg
ColorStep(name, arg, value) ==
    /\ col_ops < MaxColorOps
    /\ col_ops' = col_ops + 1
    /\ col_op' = ColorOp(name, col, arg)
    /\ col' = value

\* Color(r, g, b)
NewColor ==
    \E r \in ColorInts, g \in ColorInts, b \in ColorInts :
        /\ ColorStep("Color", <<r, g, b>>, Color(r, g, b))
        /\ UNCHANGED exceptCol

\* set_color_values(r, g, b): assignment, then clamp, as in __init__
SetColorValues ==
    \E r \in ColorInts, g \in ColorInts, b \in ColorInts :
        /\ ColorStep("set_color_values", <<r, g, b>>, Color(r, g, b))
        /\ UNCHANGED exceptCol

SetColor ==
    \E other \in ColorOperands :
        /\ ColorStep("set_color", other, Color(other[1], other[2], other[3]))
        /\ UNCHANGED exceptCol

ZeroOut ==
    /\ ColorStep("zero_out", <<0, 0, 0>>, Color(0, 0, 0))
    /\ UNCHANGED exceptCol

Scale ==
    \E s \in Scalars :
        /\ ColorStep("scale", s, color_scale(col, s))
        /\ UNCHANGED exceptCol

AddColor ==
    \E other \in ColorOperands :
        /\ ColorStep("add", other, color_add(col, other))
        /\ UNCHANGED exceptCol

\* Color + int: Color(self.r + other, self.g + other, self.b + other)
AddInt ==
    \E n \in ColorInts :
        /\ ColorStep("add", <<n, n, n>>, color_add(col, <<n, n, n>>))
        /\ UNCHANGED exceptCol

SubColor ==
    \E other \in ColorOperands :
        /\ ColorStep("sub", other, color_sub(col, other))
        /\ UNCHANGED exceptCol

SubInt ==
    \E n \in ColorInts :
        /\ ColorStep("sub", <<n, n, n>>, color_sub(col, <<n, n, n>>))
        /\ UNCHANGED exceptCol

RSubInt ==
    \E n \in ColorInts :
        /\ ColorStep("rsub", <<n, n, n>>, color_rsub(col, n))
        /\ UNCHANGED exceptCol

MulScalar ==
    \E s \in Scalars :
        /\ ColorStep("mul", s, color_mul(col, s))
        /\ UNCHANGED exceptCol

\* -Color and ~Color: 255 - self
Negate ==
    /\ ColorStep("neg", <<255, 255, 255>>, color_rsub(col, 255))
    /\ UNCHANGED exceptCol

NextColor ==
    \/ NewColor
    \/ SetColorValues
    \/ SetColor
    \/ ZeroOut
    \/ Scale
    \/ AddColor
    \/ AddInt
    \/ SubColor
    \/ SubInt
    \/ RSubInt
    \/ MulScalar
    \/ Negate

(***************************************************************************)
(* Mask (src/backend/utils.py): an Enum whose members hold key lists, and  *)
(* its subtraction.                                                        *)
(***************************************************************************)
\* number of subtractions in a row that are explored
MaxMaskOps == 2

\* the members of Mask, in the order of their definition
MaskMembers == <<"ALL", "WASD", "FUNCTION", "NUMPAD">>

MaskWASD == <<"W", "A", "S", "D">>

MaskFUNCTION == <<"F1", "F2", "F3", "F4", "F5", "F6", "F7", "F8", "F9", "F10", "F11", "F12">>

MaskNUMPAD ==
    <<"N0", "N1", "N2", "N3", "N4", "N5", "N6", "N7", "N8", "N9", "Divide", "Multiply",
      "NumLock", "NDelete", "Subtract", "Add", "RightEnter">>

\* the members of the explored calls
Operands == {"WASD", "FUNCTION", "NUMPAD"}

\* the key lists of the explored calls
KeyLists ==
    { << >>, <<"W">>, <<"W", "W">>, <<"A", "F1">>, <<"W", "A", "S", "D">>,
      <<"W", "A", "S", "D", "W">> }

NoSubtraction == [status |-> "none", member |-> "", keys |-> << >>, a |-> << >>, b |-> << >>]

InitMask ==
    /\ mask_value = [m \in Range(MaskMembers) |->
                        CASE m = "ALL" -> MaskALL
                          [] m = "WASD" -> MaskWASD
                          [] m = "FUNCTION" -> MaskFUNCTION
                          [] m = "NUMPAD" -> MaskNUMPAD]
    /\ mask_out = NoSubtraction
    /\ mask_ops = 0

\* list.remove(key): the list without the first occurrence of key
list_remove(list, key) ==
    LET first == CHOOSE i \in 1..Len(list) :
                     list[i] = key /\ \A j \in 1..(i - 1) : list[j] # key
    IN  SubSeq(list, 1, first - 1) \o SubSeq(list, first + 1, Len(list))

\* the loop of Mask.__sub__ from position i of other on; aliased: other is
\* the list out itself, which the loop is changing
RECURSIVE remove_loop(_, _, _, _)
remove_loop(out, other, i, aliased) ==
    LET iterated == IF aliased THEN out ELSE other
    IN  IF i > Len(iterated)
        THEN out
        ELSE remove_loop(IF \E j \in 1..Len(out) : out[j] = iterated[i]
                         THEN list_remove(out, iterated[i])
                         ELSE out,
                         other, i + 1, aliased)

\* Mask(keys) on the Enum: the first member, in the order of definition,
\* with this key list; found is FALSE for ValueError
mask_lookup(values, keys) ==
    LET with == {n \in 1..Len(MaskMembers) : values[MaskMembers[n]] = keys}
    IN  IF with = {}
        THEN [found |-> FALSE, member |-> ""]
        ELSE [found |-> TRUE,
              member |-> MaskMembers[CHOOSE n \in with : \A m \in with : n <= m]]

\* Mask.__sub__ of the member self: the key lists of the members afterwards
sub_values(values, self, other, aliased) ==
    [values EXCEPT ![self] = remove_loop(values[self], other, 1, aliased)]

\* the outcome of self - other with the key lists of the members afterwards
sub_outcome(values, self, other, aliased) ==
    LET after == sub_values(values, self, other, aliased)
        result == mask_lookup(after, after[self])
    IN  [status |-> "ok", member |-> result.member, keys |-> after[result.member],
         a |-> values[self], b |-> other]

MaskStep(values, outcome) ==
    /\ mask_ops < MaxMaskOps
    /\ mask_ops' = mask_ops + 1
    /\ mask_value' = values
    /\ mask_out' = outcome

\* member - member
SubMask ==
    \E self \in Operands, other \in Operands :
        /\ MaskStep(sub_values(mask_value, self, mask_value[other], self = other),
                    sub_outcome(mask_value, self, mask_value[other], self = other))
        /\ UNCHANGED exceptMask

\* member - list
SubList ==
    \E self \in Operands, other \in KeyLists :
        /\ MaskStep(sub_values(mask_value, self, other, FALSE),
                    sub_outcome(mask_value, self, other, FALSE))
        /\ UNCHANGED exceptMask

\* list - member: Mask.__rsub__, that is Mask(list) - member
RSubList ==
    \E list \in KeyLists, other \in Operands :
        LET self == mask_lookup(mask_value, list)
        IN  /\ IF self.found
               THEN MaskStep(sub_values(mask_value, self.member, mask_value[other],
                                        self.member = other),
                             sub_outcome(mask_value, self.member, mask_value[other],
                                         self.member = other))
               ELSE MaskStep(mask_value,
                             [status |-> "ValueError", member |-> "", keys |-> << >>,
                              a |-> list, b |-> mask_value[other]])
            /\ UNCHANGED exceptMask

NextMask ==
    \/ SubMask
    \/ SubList
    \/ RSubList

(***************************************************************************)
(* GradientKeyPoint and Gradient (src/backend/utils.py), with              *)
(* interpolation in RGB space.  Times are integers.                        *)
(***************************************************************************)
\* number of key points of the explored Gradients
MaxPoints == 3

\* the times of key points, and the times a colour is asked for
PointTimes == {0, 2}

GradTimes == 0..2

GradColors == {Color(10, 20, 30), Color(200, 0, 255)}

KeyPointLists ==
    UNION {[1..n -> [color : GradColors, t : PointTimes]] : n \in 0..MaxPoints}

NoGradient == [status |-> "none", key_points |-> << >>]

NoColor == [status |-> "none", t |-> 0, color |-> Black]

InitGradient ==
    /\ grad = NoGradient
    /\ grad_out = NoColor

\* sorted(key_points, key=lambda point: point.t): points of equal t keep
\* their order
RECURSIVE sorted_by_t(_)
sorted_by_t(points) ==
    IF points = << >>
    THEN << >>
    ELSE LET rest == sorted_by_t(Tail(points))
             k == Cardinality({i \in 1..Len(rest) : rest[i].t < Head(points).t})
         IN  SubSeq(rest, 1, k) \o <<Head(points)>> \o SubSeq(rest, k + 1, Len(rest))

\* Gradient.__init__; optimize: the interpreter runs with -O and skips the
\* assert statements
gradient_init(optimize, key_points) ==
    LET points == sorted_by_t(key_points)
    IN  IF ~optimize /\ ~(Len(key_points) > 1)
        THEN [status |-> "AssertionError", key_points |-> << >>]
        ELSE IF ~optimize /\ ~(points[Len(points)].t > points[1].t)
        THEN [status |-> "AssertionError", key_points |-> << >>]
        ELSE [status |-> "ok", key_points |-> points]

\* the loop of get_color from the pair (key_points[j], key_points[j + 1]) on:
\* the position of the pair it ends with, 0 when the loop runs off the list
RECURSIVE segment(_, _, _)
segment(points, t, j) ==
    IF ~(t <= points[Len(points)].t)
    THEN j
    ELSE IF points[j].t <= t /\ t <= points[j + 1].t
    THEN j
    ELSE IF j + 2 > Len(points)
    THEN 0
    ELSE segment(points, t, j + 1)

\* Color.interpolate in RGB space at the fraction s
interpolate(start, end, s) ==
    Color(IntTrunc((s[2] - s[1]) * start[1] + s[1] * end[1], s[2]),
          IntTrunc((s[2] - s[1]) * start[2] + s[1] * end[2], s[2]),
          IntTrunc((s[2] - s[1]) * start[3] + s[1] * end[3], s[2]))

\* Gradient.get_color
get_color(points, t) ==
    IF Len(points) < 2
    THEN [status |-> "IndexError", t |-> t, color |-> Black]
    ELSE LET j == segment(points, t, 1)
         IN  IF j = 0
             THEN [status |-> "IndexError", t |-> t, color |-> Black]
             ELSE IF points[j + 1].t = points[j].t
             THEN [status |-> "ZeroDivisionError", t |-> t, color |-> Black]
             ELSE [status |-> "ok", t |-> t,
                   color |-> interpolate(points[j].color, points[j + 1].color,
                                 <<t - points[j].t, points[j + 1].t - points[j].t>>)]

\* Gradient(key_points)
NewGradient ==
    /\ \E optimize \in BOOLEAN, key_points \in KeyPointLists :
          grad' = gradient_init(optimize, key_points)
    /\ grad_out' = NoColor
    /\ UNCHANGED exceptGradient

\* gradient.get_color(t)
GetColor ==
    /\ grad.status = "ok"
    /\ \E t \in GradTimes : grad_out' = get_color(grad.key_points, t)
    /\ UNCHANGED grad
    /\ UNCHANGED exceptGradient

NextGradient ==
    \/ NewGradient
    \/ GetColor

(***************************************************************************)
(* Construction of a Mask (src/backend/utils.py): Mask.__new__ runs for    *)
(* the key list of a member when the class is defined, and Mask(keys) of a *)
(* program is the lookup of the Enum by value.                             *)
(***************************************************************************)
\* length of the explored key lists
MaxKeys == 2

\* elements of a key list: a key, an int and None
NotAString == "5 (int)"

NoneElement == "None"

KeyElements == {"A", NotAString, NoneElement}

isinstance_str(x) == x \notin {NotAString, NoneElement}

ElementLists == UNION {[1..n -> KeyElements] : n \in 0..MaxKeys}

NoMask == [status |-> "none", by |-> "", keys |-> << >>]

InitBuild == built = NoMask

\* list(filter(lambda x: x is not None, keys))
filter_none(keys) == SelectSeq(keys, LAMBDA x : x # NoneElement)

\* Mask.__new__(cls, keys) for a list keys; optimize: the interpreter runs
\* with -O and skips the assert statements.  The filtered list is checked and
\* stored in the attribute _value, which nothing reads; the value of the
\* member, as Enum sets it, is the list as declared
mask_new(optimize, keys) ==
    LET filtered == filter_none(keys)
    IN  IF ~optimize /\ Len(filtered) > 0 /\ ~isinstance_str(filtered[1])
        THEN [status |-> "AssertionError", by |-> "__new__", keys |-> << >>]
        ELSE [status |-> "ok", by |-> "__new__", keys |-> keys]

\* Mask(keys): the member with this key list, or ValueError
mask_call(values, keys) ==
    IF mask_lookup(values, keys).found
    THEN [status |-> "ok", by |-> "lookup", keys |-> keys]
    ELSE [status |-> "ValueError", by |-> "lookup", keys |-> << >>]

\* a member of Mask is declared with the key list keys
NewMember ==
    /\ \E optimize \in BOOLEAN, keys \in ElementLists :
          built' = mask_new(optimize, keys)
    /\ UNCHANGED exceptBuild

\* Mask(keys) is called
MaskCall ==
    /\ \E keys \in ElementLists \cup {MaskWASD} :
          built' = mask_call(mask_value, keys)
    /\ UNCHANGED exceptBuild

NextBuild ==
    \/ NewMember
    \/ MaskCall
    \/ NewGradient

(***************************************************************************)
(* PeriodicFunction (src/lighting/colorfunctions.py).  Times are integers. *)
(***************************************************************************)
\* the greatest period of the explored functions
MaxPeriod == 3

\* the wall clock runs from 0 to MaxClock
MaxClock == 7

NoPeriodic == [period |-> 0, current_time |-> 0, start_time |-> 0]

InitPeriodic ==
    /\ per_fn = NoPeriodic
    /\ per_now = 0
    /\ per_at = 0 - 1

\* the loop of update_time: start_time and current_time when it ends
RECURSIVE fold_time(_, _, _)
fold_time(start, current, period) ==
    IF current > period
    THEN fold_time(start + period, current - period, period)
    ELSE [start_time |-> start, current_time |-> current]

\* PeriodicFunction.update_time at the wall clock time
update_time(fn, time) ==
    LET folded == fold_time(fn.start_time, time - fn.start_time, fn.period)
    IN  [fn EXCEPT !.start_time = folded.start_time,
                   !.current_time = folded.current_time]

\* PeriodicFunction(period, current_time)
NewPeriodic ==
    /\ \E period \in 1..MaxPeriod :
          \E current_time \in 0..period :
             per_fn' = [period |-> period, current_time |-> current_time,
                        start_time |-> per_now - current_time]
    /\ per_at' = 0 - 1
    /\ UNCHANGED per_now
    /\ UNCHANGED exceptPeriodic

\* fn.update_time()
UpdateTime ==
    /\ per_fn.period > 0
    /\ per_fn' = update_time(per_fn, per_now)
    /\ per_at' = per_now
    /\ UNCHANGED per_now
    /\ UNCHANGED exceptPeriodic

\* the wall clock advances
PeriodicTick ==
    /\ per_now < MaxClock
    /\ per_now' = per_now + 1
    /\ UNCHANGED <<per_fn, per_at>>
    /\ UNCHANGED exceptPeriodic

NextPeriodic ==
    \/ NewPeriodic
    \/ UpdateTime
    \/ PeriodicTick

(***************************************************************************)
(* KeyIndex with the key grids (src/backend/utils.py) and the table of     *)
(* combine_keys_and_functions (src/lighting/colorfunctions.py).            *)
(* Coordinates count from 0 as in the code.                                *)
(***************************************************************************)
key_grid_by_row ==
    <<
      <<"Escape", NoneElement, "F1", "F2", "F3", "F4", "F5", "F6", "F7",
        "F8", "F9", "F10", "F11", "F12", "PrintScreen", "ScrollLock",
        "Pause", "Calc", "Mute", "VolumeDown", "VolumeUp">>,
      <<"SectionSign", "1", "2", "3", "4", "5", "6", "7", "8", "9", "0", "-",
        "=", "Backspace", "Insert", "Home", "PageUp", "NumLock", "Divide",
        "Multiply", "Subtract">>,
      <<"Tab", "Q", "W", "E", "R", "T", "Y", "U", "I", "O", "P", "[", "]",
        "BSlash", "Delete", "End", "PageDown", "N7", "N8", "N9", "Add">>,
      <<"CapsLock", "A", "S", "D", "F", "G", "H", "J", "K", "L", "Semicolon",
        "'", NoneElement, "Enter", NoneElement, NoneElement, NoneElement,
        "N4", "N5", "N6", NoneElement>>,
      <<"LeftShift", NoneElement, "Z", "X", "C", "V", "B", "N", "M", ",",
        ".", "FSlash", NoneElement, "RightShift", NoneElement, "UpArrow",
        NoneElement, "N1", "N2", "N3", NoneElement>>,
      <<"LeftControl", "LeftWindows", "LeftAlt", NoneElement, NoneElement,
        NoneElement, "Space", NoneElement, NoneElement, NoneElement,
        "RightAlt", "RightWindows", "Function", "RightControl", "LeftArrow",
        "DownArrow", "RightArrow", "N0", NoneElement, "NDelete",
        "RightEnter">>
    >>

\* list(list(sub) for sub in np.rot90(key_grid_by_row, k=-1)): a quarter
\* turn clockwise
key_grid_by_col ==
    [i \in 1..Len(key_grid_by_row[1]) |->
        [j \in 1..Len(key_grid_by_row) |->
            key_grid_by_row[Len(key_grid_by_row) + 1 - j][i]]]

key_grid(row_major) == IF row_major THEN key_grid_by_row ELSE key_grid_by_col

\* the coordinates of a grid
Coordinates(grid) == (0..(Len(grid) - 1)) \X (0..(Len(grid[1]) - 1))

\* str_key_to_tuple(key_name, row_major)
str_key_to_tuple(key_name, row_major) ==
    LET grid == key_grid(row_major)
        at == {c \in Coordinates(grid) : grid[c[1] + 1][c[2] + 1] = key_name}
    IN  IF at = {} THEN <<0 - 1, 0 - 1>> ELSE CHOOSE c \in at : TRUE

\* tuple_key_to_string(key_coordinate, row_major) for a coordinate of the grid
tuple_key_to_string(key_coordinate, row_major) ==
    key_grid(row_major)[key_coordinate[1] + 1][key_coordinate[2] + 1]

\* the index of a KeyIndex: a key name or a coordinate
NameIndex(name) == [str |-> name, tuple |-> << >>]

TupleIndex(coordinate) == [str |-> "", tuple |-> coordinate]

KeyIndex(index, row_major) == [index |-> index, row_major |-> row_major]

\* KeyIndex.__str__
key_str(k) ==
    IF k.index.tuple = << >>
    THEN k.index.str
    ELSE tuple_key_to_string(k.index.tuple, k.row_major)

\* KeyIndex.__eq__
key_eq(a, b) == key_str(a) = key_str(b)

\* KeyIndex.__hash__: the tuple that is hashed
key_hash(k) == <<k.index, k.row_major>>

\* combine_keys_and_functions: the keys of the table
combine_keys == {KeyIndex(NameIndex(MaskALL[i]), FALSE) : i \in 1..Len(MaskALL)}

\* table[k] of a dict: an entry of the same hash that is equal
dict_contains(table_keys, k) ==
    \E e \in table_keys : key_hash(e) = key_hash(k) /\ key_eq(e, k)

\* the keys that are explored
ExploredKeys == {"Escape", "W", "N1"}

\* the KeyIndex values that denote an explored key
KeyIndexValues ==
    {KeyIndex(NameIndex(n), rm) : n \in ExploredKeys, rm \in BOOLEAN}
        \cup {KeyIndex(TupleIndex(str_key_to_tuple(n, rm)), rm) :
                  n \in ExploredKeys, rm \in BOOLEAN}

NoComparison ==
    [status |-> "none", a |-> KeyIndex(NameIndex(""), FALSE),
     b |-> KeyIndex(NameIndex(""), FALSE), eq |-> FALSE, same_hash |-> FALSE]

NoLookup == [status |-> "none", key |-> KeyIndex(NameIndex(""), FALSE), found |-> FALSE]

InitKeyIndex ==
    /\ kidx_out = NoComparison
    /\ tbl_out = NoLookup

\* a == b and hash(a) == hash(b)
Compare ==
    /\ \E a \in KeyIndexValues, b \in KeyIndexValues :
          kidx_out' = [status |-> "compared", a |-> a, b |-> b,
                       eq |-> key_eq(a, b),
                       same_hash |-> (key_hash(a) = key_hash(b))]
    /\ UNCHANGED tbl_out
    /\ UNCHANGED exceptKeyIndex

\* k in combine_keys_and_functions(functions)
Lookup ==
    /\ \E k \in KeyIndexValues :
          tbl_out' = [status |-> "looked up", key |-> k,
                      found |-> dict_contains(combine_keys, k)]
    /\ UNCHANGED kidx_out
    /\ UNCHANGED exceptKeyIndex

NextKeyIndex ==
    \/ Compare
    \/ Lookup

(***************************************************************************)
(* Config and ConfigMeta (src/configs/config.py).  A class body is the     *)
(* sequence of its members, each a method decorated with layer(), a plain  *)
(* method, or a staticmethod that wraps a Layer.  A Layer is known by the  *)
(* name of its method, and so is the scheme that the method returns.       *)
(***************************************************************************)
\* number of members of the explored class bodies
MaxMembers == 2

\* number of get_scheme calls on one Config
MaxCalls == 2

\* the names of the members; scheme is the name of the attribute that
\* get_scheme keeps its CombiningScheme in
MemberNames == {"a", "b", "scheme"}

MemberKinds == {"layer", "method", "static_layer"}

\* the bodies of up to n members with different names
Bodies(n) ==
    {body \in UNION {[1..m -> [name : MemberNames, kind : MemberKinds]] : m \in 0..n} :
        \A i, j \in DOMAIN body : body[i].name = body[j].name => i = j}

\* the body of the class between Config and the explored class; empty when
\* the class derives from Config itself
BaseBodies == Bodies(1)

\* has_scheme: the instance has an attribute scheme of its own; result: the
\* kind of object the last call returned
NoConfig == [has_scheme |-> FALSE, created |-> 0, scheme |-> << >>,
             calls |-> 0, returned |-> 0, result |-> "none"]

\* the loop body of ConfigMeta.__new__ for one entry of a class dictionary:
\* the layers found so far, in the order of their insertion
meta_item(layers, member) ==
    LET kept == SelectSeq(layers, LAMBDA l : l.name # member.name)
    IN  IF member.kind = "layer" THEN Append(kept, member) ELSE kept

\* the loops of ConfigMeta.__new__ over the members of the classes of the
\* mro, from the most basic class on
RECURSIVE meta_layers(_, _)
meta_layers(layers, members) ==
    IF members = << >>
    THEN layers
    ELSE meta_layers(meta_item(layers, Head(members)), Tail(members))

\* ConfigMeta.__new__ for a class with this body whose base has that body
meta_new(base, body) ==
    IF \E i \in DOMAIN (base \o body) : (base \o body)[i].kind = "static_layer"
    THEN [status |-> "TypeError", base |-> base, body |-> body, layers |-> << >>]
    ELSE [status |-> "ok", base |-> base, body |-> body,
          layers |-> meta_layers(<< >>, base \o body)]

\* scheme.add_scheme(l.scheme_getter(self), l.combine_type, l.mask): one more
\* layer on top
add_scheme(scheme, l) == Append(scheme, l.name)

RECURSIVE add_schemes(_, _)
add_schemes(scheme, layers) ==
    IF layers = << >>
    THEN scheme
    ELSE add_schemes(add_scheme(scheme, Head(layers)), Tail(layers))

\* getattr(cls, name): the member of this name of the class body, else of its
\* base, by its kind; "none" when there is no such member
class_attr(cls, name) ==
    LET in_body == SelectSeq(cls.body, LAMBDA m : m.name = name)
        in_base == SelectSeq(cls.base, LAMBDA m : m.name = name)
    IN  IF in_body # << >> THEN in_body[1].kind
        ELSE IF in_base # << >> THEN in_base[1].kind
        ELSE "none"

\* Config.get_scheme: created counts the CombiningSchemes made, returned is
\* the number of the one that the call returned; when the class has a member
\* named scheme, hasattr(self, "scheme") holds from the start, self.scheme is
\* that member (a Layer, or the bound method) and nothing is built
get_scheme(obj, cls) ==
    IF ~(obj.has_scheme \/ class_attr(cls, "scheme") # "none")
    THEN [obj EXCEPT !.has_scheme = TRUE,
                     !.created = obj.created + 1,
                     !.scheme = add_schemes(<< >>, cls.layers),
                     !.calls = obj.calls + 1,
                     !.returned = obj.created + 1,
                     !.result = "CombiningScheme"]
    ELSE IF obj.has_scheme
         THEN [obj EXCEPT !.calls = obj.calls + 1,
                          !.returned = obj.created,
                          !.result = "CombiningScheme"]
         ELSE [obj EXCEPT !.calls = obj.calls + 1,
                          !.returned = 0,
                          !.result = IF class_attr(cls, "scheme") = "layer"
                                     THEN "Layer" ELSE "method"]

\* the classes that were declared without an error
ConfigClasses ==
    {c \in {meta_new(base, body) : base \in BaseBodies, body \in Bodies(MaxMembers)} :
        c.status = "ok"}

\* a class with an empty body
OneConfigClass == {meta_new(<< >>, << >>)}

\* an instance of one of the classes, before the first get_scheme
InitConfig(classes) ==
    /\ cfg_class \in classes
    /\ cfg_obj = NoConfig

\* config.get_scheme()
GetScheme ==
    /\ cfg_class.status = "ok"
    /\ cfg_obj.calls < MaxCalls
    /\ cfg_obj' = get_scheme(cfg_obj, cfg_class)
    /\ UNCHANGED cfg_class
    /\ UNCHANGED exceptConfig

NextConfig == GetScheme

(***************************************************************************)
(* RGBKeyboard.add_layer / remove_layer / set_config with the hook list    *)
(* (src/keyboards/rgbkeyboard.py).  s1 and s2 are HookingSchemes with the  *)
(* hooks h1 and h2, p is a scheme without a hook, c is a CombiningScheme   *)
(* whose hooks are h1 and h2, e is a CombiningScheme without hooks.        *)
(***************************************************************************)
Schemes == {"s1", "s2", "p", "c", "e"}

HookingScheme == {"s1", "s2"}

CombiningSchemes == {"c", "e"}

\* the argument tuple of _add_hooks / _remove_hooks for a scheme: scheme.hook
\* of a HookingScheme, *scheme.hooks of a CombiningScheme; no call is made
\* for an empty tuple
hooks_of(s) ==
    CASE s = "s1" -> <<"h1">>
      [] s = "s2" -> <<"h2">>
      [] s = "c" -> <<"h1", "h2">>
      [] OTHER -> << >>

\* CombiningScheme.remove_scheme(scheme): the layer of this scheme leaves the
\* stack
remove_scheme(layers, s) == SelectSeq(layers, LAMBDA l : l # s)

\* add_layer(s)
KbAddLayer ==
    /\ kb_pc = "idle"
    /\ Len(kb_layers) < MaxLayers
    /\ \E s \in Schemes \ Range(kb_layers) :
          /\ Len(hooks_list) + Len(hooks_of(s)) <= MaxHooks
          /\ kb_layers' = Append(kb_layers, s)
          /\ hooks_list' = IF hooks_of(s) # << >>
                           THEN list_iadd(hooks_list, hooks_of(s))
                           ELSE hooks_list
          /\ mutated' = IF hooks_of(s) # << >> THEN Interleaved ELSE mutated
          /\ kb_call' = [op |-> "add_layer", scheme |-> s, raised |-> FALSE]
    /\ kb_event' = NoKeyEvent
    /\ UNCHANGED <<it_active, it_detached, it_list, it_pos, received, stable, delivered,
                   remove_raised, kb_pc>>
    /\ UNCHANGED <<runVars, reactVars, libVars>>

\* remove_layer(s)
KbRemoveLayer ==
    /\ kb_pc = "idle"
    /\ \E s \in Range(kb_layers) :
          LET r == list_isub(hooks_list, hooks_of(s))
              called == hooks_of(s) # << >>
          IN  /\ kb_layers' = remove_scheme(kb_layers, s)
              /\ hooks_list' = IF called THEN r.list ELSE hooks_list
              /\ remove_raised' = IF called /\ r.raises THEN TRUE ELSE remove_raised
              /\ stable' = IF called THEN StillRegistered(Range(r.list)) ELSE stable
              /\ mutated' = IF called THEN Interleaved ELSE mutated
              /\ kb_call' = [op |-> "remove_layer", scheme |-> s,
                             raised |-> (called /\ r.raises)]
    /\ kb_event' = NoKeyEvent
    /\ UNCHANGED <<it_active, it_detached, it_list, it_pos, received, delivered, kb_pc>>
    /\ UNCHANGED <<runVars, reactVars, libVars>>

\* set_config(config), first statement: reset_layers().  The input-hook thread
\* may run before the second statement
KbSetConfig ==
    /\ kb_pc = "idle"
    /\ \E s \in CombiningSchemes :
          kb_call' = [op |-> "set_config", scheme |-> s, raised |-> FALSE]
    /\ kb_pc' = "add_layer"
    /\ kb_layers' = << >>
    /\ hooks_list' = << >>
    /\ IF it_active /\ ~it_detached
       THEN it_detached' = TRUE /\ it_list' = hooks_list
       ELSE UNCHANGED <<it_detached, it_list>>
    /\ stable' = StillRegistered({})
    /\ mutated' = Interleaved
    /\ kb_event' = NoKeyEvent
    /\ UNCHANGED <<it_active, it_pos, received, delivered, remove_raised>>
    /\ UNCHANGED <<runVars, reactVars, libVars>>

\* set_config(config), second statement: add_layer(config.get_scheme()), the
\* CombiningScheme of the Config
KbSetConfigAddLayer ==
    /\ kb_pc = "add_layer"
    /\ LET s == kb_call.scheme
       IN  /\ kb_layers' = Append(kb_layers, s)
           /\ hooks_list' = IF hooks_of(s) # << >>
                            THEN list_iadd(hooks_list, hooks_of(s))
                            ELSE hooks_list
           /\ mutated' = IF hooks_of(s) # << >> THEN Interleaved ELSE mutated
    /\ kb_pc' = "idle"
    /\ kb_event' = NoKeyEvent
    /\ UNCHANGED <<it_active, it_detached, it_list, it_pos, received, stable, delivered,
                   remove_raised, kb_call>>
    /\ UNCHANGED <<runVars, reactVars, libVars>>

\* _hook_callback(event) from its start to its end, with no change of the
\* hook list meanwhile
KbKeyEvent ==
    /\ ~it_active
    /\ kb_event' = [fired |-> TRUE, to |-> hooks_list, layers |-> kb_layers]
    /\ UNCHANGED <<hooks_list, it_active, it_detached, it_list, it_pos, received, stable,
                   delivered, mutated, remove_raised, kb_layers, kb_call, kb_pc>>
    /\ UNCHANGED <<runVars, reactVars, libVars>>

\* the calls that change the hook list, interleaved with the steps of a
\* delivery on the input-hook thread
NextHooks ==
    \/ AddHooks
    \/ RemoveHooks
    \/ ResetLayers
    \/ KbSetConfig
    \/ KbSetConfigAddLayer
    \/ HookCallbackStart
    \/ HookCallbackNext
    \/ HookCallbackEnd

NextLayers ==
    \/ KbAddLayer
    \/ KbRemoveLayer
    \/ ResetLayers
    \/ KbSetConfig
    \/ KbSetConfigAddLayer
    \/ KbKeyEvent

(***************************************************************************)
(* Specifications.                                                         *)
(***************************************************************************)
NextRun ==
    \/ Run
    \/ HandleStart
    \/ HandleReturn
    \/ TransportError
    \/ EmptyFrame
    \/ ExecReturn
    \/ SleepDone
    \/ Push
    \/ PushOutside
    \/ ExecutePreparedTraffic
    \/ Interrupt
    \/ SleepCancelled

\* the objects that are used without a keyboard, after construction
InitLib ==
    InitEncode(OneLayout) /\ InitCombine /\ InitPacket(OnePacketInput, OneFileInput) /\ InitColor
        /\ InitMask
        /\ InitGradient
        /\ InitBuild
        /\ InitPeriodic
        /\ InitKeyIndex
        /\ InitConfig(OneConfigClass)

\* the state after construction, with a function for an ordinary key
Init == InitRun /\ InitHooks /\ InitReactive({"LeftControl"}, {"callable"}) /\ InitLib

\* the state after construction, with a function for any of the tracked keys
InitAnyKey == InitRun /\ InitHooks /\ InitReactive(TrackedKeys, LowerFunctions) /\ InitLib

SpecRun == Init /\ [][NextRun]_vars

SpecHooks == Init /\ [][NextHooks]_vars

SpecReactive == InitAnyKey /\ [][NextReactive]_vars

SpecCallbacks == InitAnyKey /\ [][NextCallbacks]_vars

\* the state after construction, with a manager for any supplied layout
InitAnyLayout ==
    InitRun /\ InitHooks /\ InitReactive({"LeftControl"}, {"callable"}) /\ InitEncode(GenLayouts) /\ InitCombine
        /\ InitPacket(OnePacketInput, OneFileInput) /\ InitColor
        /\ InitMask
        /\ InitGradient
        /\ InitBuild
        /\ InitPeriodic
        /\ InitKeyIndex
        /\ InitConfig(OneConfigClass)

SpecEncode == Init /\ [][NextEncode]_vars

SpecLayout == InitAnyLayout /\ [][NextLayout]_vars

SpecCombine == Init /\ [][NextCombine]_vars

\* the state before a call of build_packet with any direction and data string
InitAnyPacket ==
    InitRun /\ InitHooks /\ InitReactive({"LeftControl"}, {"callable"}) /\ InitEncode(OneLayout) /\ InitCombine
        /\ InitPacket(PacketInputs, OneFileInput) /\ InitColor
        /\ InitMask
        /\ InitGradient
        /\ InitBuild
        /\ InitPeriodic
        /\ InitKeyIndex
        /\ InitConfig(OneConfigClass)

SpecPacket == InitAnyPacket /\ [][NextPacket]_vars

\* the state before the loading of any of the files
InitAnyFile ==
    InitRun /\ InitHooks /\ InitReactive({"LeftControl"}, {"callable"}) /\ InitEncode(OneLayout) /\ InitCombine
        /\ InitPacket(OnePacketInput, FileInputs) /\ InitColor
        /\ InitMask
        /\ InitGradient
        /\ InitBuild
        /\ InitPeriodic
        /\ InitKeyIndex
        /\ InitConfig(OneConfigClass)

SpecFile == InitAnyFile /\ [][NextFile]_vars

SpecColor == Init /\ [][NextColor]_vars

SpecMask == Init /\ [][NextMask]_vars

SpecGradient == Init /\ [][NextGradient]_vars

SpecBuild == Init /\ [][NextBuild]_vars

SpecPeriodic == Init /\ [][NextPeriodic]_vars

SpecKeyIndex == Init /\ [][NextKeyIndex]_vars

\* the state after construction, with a Config of any of the classes
InitAnyConfig ==
    InitRun /\ InitHooks /\ InitReactive({"LeftControl"}, {"callable"}) /\ InitEncode(OneLayout) /\ InitCombine
        /\ InitPacket(OnePacketInput, OneFileInput) /\ InitColor
        /\ InitMask
        /\ InitGradient
        /\ InitBuild
        /\ InitPeriodic
        /\ InitKeyIndex
        /\ InitConfig(ConfigClasses)

SpecConfig == InitAnyConfig /\ [][NextConfig]_vars

SpecLayers == Init /\ [][NextLayers]_vars

(***************************************************************************)
(* Properties of PacketSender and of the run loop.                         *)
(***************************************************************************)
\* the entries of the transport history that belong to stream execution e
WireOf(e) == {k \in DOMAIN wire : wire[k].exec = e}

\* C1: execute_packet_stream handles the packets in stream order and one at a
\* time: the transport operations of one execution are the packets 1, 2, 3, ...
\* each once, a send for an outbound and a recv for an inbound packet, packet
\* i + 1 is started only when packet i has returned and been counted, and at
\* most one packet execution is under way on the device.
C1_InOrderOneAtATime ==
    /\ \A k \in DOMAIN wire :
          /\ wire[k].i = IF k > 1 /\ wire[k - 1].exec = wire[k].exec
                         THEN wire[k - 1].i + 1 ELSE 1
          /\ k > 1 => wire[k - 1].exec <= wire[k].exec
          /\ wire[k].exec = execId /\ wire[k].i <= Len(packet_stream) =>
                (wire[k].op = "send") = packet_stream[wire[k].i].outbound
    /\ Cardinality(inflight) <= 1
    /\ Executing =>
          /\ inflight \subseteq {idx}
          /\ successes + failures + Cardinality(inflight) = idx
          /\ Cardinality(WireOf(execId)) = idx

\* a push stream in which packets were handled one after the other
C1_Witness ==
    /\ pc = "push_exec"
    /\ idx = 5
    /\ inflight = {5}
    /\ successes + failures = 4

\* C2: when send raises a transport error at packet k, the error leaves
\* execute_packet_stream (the execution ends with that error, without a result),
\* packet k is sent once only and no packet after k is sent or received.
C2_SendErrorAborts ==
    faulted.op = "send" =>
        /\ \A k \in WireOf(faulted.exec) : wire[k].i <= faulted.i
        /\ Cardinality({k \in WireOf(faulted.exec) : wire[k].i = faulted.i}) = 1
        /\ Cardinality(WireOf(faulted.exec)) = faulted.i
        /\ faulted.exec = execId => ~Executing
        /\ lastExec.exec = faulted.exec =>
              /\ lastExec.outcome = "HIDException"
              /\ lastExec.taken = faulted.i

\* the third packet of a push stream failed to be sent, after two handled
\* packets, and the close sequence is running
C2_Witness ==
    /\ faulted.op = "send"
    /\ faulted.i = 3
    /\ lastExec.exec = faulted.exec
    /\ lastExec.phase = "push"
    /\ lastExec.successes + lastExec.failures = 2
    /\ pc = "close_exec"

\* C3: an inbound packet whose frame differs from the expected packet is one
\* failure and the stream goes on, whatever recv returned; a stream execution
\* that meets no transport error (and is not interrupted) handles every packet
\* and returns with successes + failures = number of packets.
C3_MismatchIsCounted ==
    /\ lastExec.exec # 0 /\ lastExec.outcome \notin {"HIDException", "KeyboardInterrupt"} =>
          /\ lastExec.outcome = "returned"
          /\ lastExec.taken = lastExec.n
          /\ lastExec.successes + lastExec.failures = lastExec.n
    /\ lastRet.exec = execId /\ lastRet.exec # 0 /\ ~lastRet.outbound /\ Executing =>
          (lastRet.value # <<packet_stream[lastRet.i].report_id>> \o packet_stream[lastRet.i].data
              => ~lastRet.result)

\* the success criterion as the specification states it
SuccessCriterion(packet, value) ==
    IF packet.outbound
    THEN value - 1 = Len(packet.data)
    ELSE /\ Len(value) >= 1
         /\ value[1] = packet.report_id
         /\ SubSeq(value, 2, Len(value)) = packet.data

\* C4: a packet is counted as a success exactly when it is outbound and send
\* returned the payload length plus one, or inbound and the frame's first byte
\* is the report id and the rest is the payload; every other packet whose send
\* or recv returned is counted as a failure.
C4_SuccessIff ==
    [][lastRet' # lastRet =>
          IF SuccessCriterion(packet_stream[lastRet'.i], lastRet'.value)
          THEN successes' = successes + 1 /\ failures' = failures /\ lastRet'.result
          ELSE failures' = failures + 1 /\ successes' = successes /\ ~lastRet'.result]_vars

\* an inbound packet was counted as a success after an outbound packet that was
\* counted as a failure
C4_Witness ==
    /\ lastRet.exec = execId
    /\ ~lastRet.outbound
    /\ lastRet.result
    /\ successes = 1
    /\ failures = 1

\* C5: the loop's task never terminates without the close sequence having been
\* started.
C5_CloseBeforeExit ==
    pc \in {"done", "raised", "cancelled"} => \E k \in DOMAIN trace : trace[k] = "close"

\* C6: a run is _init_connection, then push cycles only, then _close_connection;
\* every colour packet is sent after the whole initialize stream and before the
\* close sequence starts, and initialized is true exactly from the start of
\* _init_connection to the start of _close_connection.
C6_RunOrder ==
    /\ \A k \in DOMAIN trace :
          /\ (k = 1) = (trace[k] = "init")
          /\ trace[k] = "close" => k = Len(trace)
    /\ \A k \in DOMAIN wire :
          wire[k].phase = "push" =>
              /\ Cardinality({j \in 1..(k - 1) : wire[j].phase = "initialize"})
                    = Len(PreparedTraffic("initialize"))
              /\ \A j \in 1..(k - 1) : wire[j].phase # "exit"
    /\ (\E k \in DOMAIN trace : trace[k] = "close") =>
           pc \notin {"idle", "init_exec", "init_sleep", "loop", "push_exec", "ext_exec",
                      "cancelled"}
    /\ initialized = /\ \E k \in DOMAIN trace : trace[k] = "init"
                     /\ \A k \in DOMAIN trace : trace[k] # "close"

\* a run with two push cycles that was closed to its end
C6_Witness ==
    /\ pc = "done"
    /\ cycles = 2
    /\ lastExec.phase = "exit"
    /\ lastExec.outcome = "returned"

\* C7: push while the connection is not initialized raises and does nothing
\* else: no key colour changes, no stream is built, nothing is sent or received.
C7_UninitializedPush ==
    [][~initialized /\ (rejected' # rejected \/ trace' = Append(trace, "push")) =>
          /\ rejected' = rejected + 1
          /\ UNCHANGED <<pc, initialized, keyColor, packet_stream, idx, inflight, successes,
                         failures, execId, wire, lastRet, trace>>]_vars

\* push was refused after a run that had set colours and was closed
C7_Witness ==
    /\ rejected = 1
    /\ pc = "done"
    /\ keyColor # InitialKeyColor
    /\ ~initialized

\* C8: a change of the hook list that is interleaved with a delivery is safe:
\* when the delivery has finished, every hook that was registered from its
\* start to its end got the event exactly once, and no hook got it twice.
C8_InterleavedDelivery ==
    delivered /\ mutated =>
        /\ \A h \in stable : received[h] = 1
        /\ \A h \in Hooks : received[h] <= 1

\* fractions <<numerator, denominator>> with a positive denominator
FracEq(a, b) == a[1] * b[2] = b[1] * a[2]

FracLeq(a, b) == a[1] * b[2] <= b[1] * a[2]

\* C9: the function is ON exactly when the last event of its key was a press
\* (so it is not ON before any such event, and a release ends ON), and the
\* release callback records the time it reads as the start of the decay.
C9_OnIffLastPress ==
    /\ [](on <=> last_match = "press")
    /\ [][rel_pc = "set_time" /\ rel_pc' = "idle" => start_time' = now /\ ~on']_vars

\* the Right-class key was pressed and then released after the clock moved on
C9_Witness ==
    /\ rkey = "RightControl"
    /\ last_match = "release"
    /\ rel_pc = "idle"
    /\ ~on
    /\ start_time = last_release
    /\ start_time > Epoch

\* the scalar of the decay envelope for the state get was called in
EnvelopeScalar ==
    IF snap.on
    THEN <<1, 1>>
    ELSE IF snap.last_release = NoTime
         THEN <<0, 1>>
         ELSE IF cur_time - snap.last_release <= Decay
              THEN <<Decay - (cur_time - snap.last_release), Decay>>
              ELSE <<0, 1>>

\* C10: the scalar get multiplies the lower colour by is within [0, 1], is 1
\* while ON, (decay - elapsed) / decay up to decay after the last release (1 at
\* the release, 1/2 half way, 0 at decay) and 0 later or without a release, and
\* is not above the scalar of the get before when no event came in between.
C10_DecayEnvelope ==
    /\ get_pc = "return" =>
          /\ FracLeq(<<0, 1>>, scalar)
          /\ FracLeq(scalar, <<1, 1>>)
          /\ ~overlap => FracEq(scalar, EnvelopeScalar)
          /\ got.valid /\ got.fresh => FracLeq(scalar, got.scalar)
    /\ got.valid => got.color = color_mul(LowerColor, got.scalar)
    /\ ~got.raised

\* C11: an event whose scan code is not the tracked key's, or whose flags do
\* not match the key's class (Right: named right..., not keypad; Numpad:
\* keypad; other keys: neither), changes neither on nor start_time, and no
\* write of start_time is left pending.
C11_OnlyMatchingEvents ==
    [][last_event' # last_event /\ ~EventOfKey(rkey, last_event'.event) =>
          /\ on' = on
          /\ start_time' = start_time
          /\ rel_pc' = "idle"]_vars

\* the Right-class key is ON and a release with its scan code but without the
\* name right... was observed
C11_Witness ==
    /\ rkey = "RightControl"
    /\ on
    /\ last_event.kind = "release"
    /\ last_event.event.scan_code = key_codes[rkey]
    /\ ~last_event.event.name_right
    /\ ~last_event.event.is_keypad

\* C12: packets_to_send returns 16 packets: for i = 0..7 in this order the
\* outbound data packet i (64 bytes, report id 1, packet index 18 * i in its
\* header) and right after it an inbound packet of 64 zero bytes, report id 1.
C12_SixteenAlternating ==
    kcm_stream # NoStream =>
        /\ Len(kcm_stream) = 16
        /\ \A i \in 0..7 :
              /\ kcm_stream[2 * i + 1].outbound
              /\ kcm_stream[2 * i + 1].report_id = 1
              /\ Len(kcm_stream[2 * i + 1].data) = 64
              /\ kcm_stream[2 * i + 1].data[7] = 18 * i
              /\ ~kcm_stream[2 * i + 2].outbound
              /\ kcm_stream[2 * i + 2].report_id = 1
              /\ kcm_stream[2 * i + 2].data = [j \in 1..64 |-> 0]

\* a stream was built with key A (packet 0, offset 35) coloured (255, 1, 2)
C12_Witness ==
    /\ kcm_stream # NoStream
    /\ kcm_keys["A"] = <<255, 1, 2>>
    /\ kcm_stream[1].data[36] = 255
    /\ kcm_stream[1].data[37] = 1

\* where colour byte k of a key with layout entry (p, o) belongs
C13_Position(p, o, k) == IF o + k < 64 THEN <<p, o + k>> ELSE <<p + 1, o + k - 60>>

\* C13: colour byte k of every key with layout entry (p, o) is at position
\* o + k of data packet p, or at position o + k - 60 of data packet p + 1 when
\* o + k >= 64, unless a key later in the dictionary writes the same position.
C13_ByteOffsets ==
    gen_data.data_arrays # << >> =>
        \A i \in DOMAIN gen_keys, k \in 0..2 :
            LET at == C13_Position(gen_keys[i].packet_number, gen_keys[i].offset, k)
                later == {<<j, m>> \in (DOMAIN gen_keys) \X (0..2) :
                            /\ 3 * j + m > 3 * i + k
                            /\ C13_Position(gen_keys[j].packet_number,
                                            gen_keys[j].offset, m) = at}
            IN  later = {} => gen_data.data_arrays[at[1] + 1][at[2] + 1] = gen_keys[i].color[k + 1]

\* the last key is at offset 62 of packet 6: its third byte is at position 4
\* of packet 7
C13_Witness ==
    /\ gen_data.data_arrays # << >>
    /\ gen_keys[GenKeyCount].packet_number = 6
    /\ gen_keys[GenKeyCount].offset = 62
    /\ gen_keys[GenKeyCount].color = <<21, 22, 23>>
    /\ gen_data.data_arrays[7][63] = 21
    /\ gen_data.data_arrays[8][5] = 23

\* the accumulated colours before the last layer of the stack that the last
\* result was computed for
ColorsBefore ==
    get_all_colors(SubSeq(cmb_out.layers, 1, Len(cmb_out.layers) - 1), cmb_out.mask)

LastLayer == cmb_out.layers[Len(cmb_out.layers)]

\* C14: the stack (Solid (10,0,0), Overlay, ALL), (Solid (5,0,0), Add, {A})
\* gives (15,0,0) for key A and (10,0,0) for every other key; an Add layer on
\* top of a stack changes only the keys of its own mask, and gives them the
\* sum per channel of the colour accumulated by the layers before it and its
\* own colour, at most 255.
C14_AddLayer ==
    cmb_out.computed =>
        /\ ( /\ cmb_out.layers = <<Layer(<<10, 0, 0>>, "Overlay", Range(MaskALL)),
                                   Layer(<<5, 0, 0>>, "Add", {"A"})>>
             /\ cmb_out.mask = Range(MaskALL) )
           => \A k \in Range(MaskALL) :
                 cmb_out.colors[k] = IF k = "A" THEN <<15, 0, 0>> ELSE <<10, 0, 0>>
        /\ ( /\ Len(cmb_out.layers) > 0
             /\ LastLayer.combine_type = "Add" )
           => \A k \in cmb_out.mask :
                 cmb_out.colors[k] =
                     IF k \in LastLayer.mask
                     THEN [i \in 1..3 |->
                             IF ColorsBefore[k][i] + LastLayer.color[i] > 255
                             THEN 255
                             ELSE ColorsBefore[k][i] + LastLayer.color[i]]
                     ELSE ColorsBefore[k]

\* the colours of the stack of the scenario were computed for all keys
C14_Witness ==
    /\ cmb_out.computed
    /\ cmb_out.mask = Range(MaskALL)
    /\ cmb_out.layers = <<Layer(<<10, 0, 0>>, "Overlay", Range(MaskALL)),
                          Layer(<<5, 0, 0>>, "Add", {"A"})>>
    /\ cmb_out.colors["A"] = <<15, 0, 0>>
    /\ cmb_out.colors["Escape"] = <<10, 0, 0>>

\* C15: an Overlay layer on top of a stack gives the keys of its mask its
\* own colour, except when that colour is exactly black: then, as for the
\* keys outside its mask, the accumulated colour is kept.
C15_OverlayLayer ==
    ( /\ cmb_out.computed
      /\ Len(cmb_out.layers) > 0
      /\ LastLayer.combine_type = "Overlay" )
    => \A k \in cmb_out.mask :
          cmb_out.colors[k] =
              IF k \in LastLayer.mask /\ LastLayer.color # <<0, 0, 0>>
              THEN LastLayer.color
              ELSE ColorsBefore[k]

\* a black Overlay layer over all keys on top of a layer of colour (10,0,0)
C15_Witness ==
    /\ cmb_out.computed
    /\ cmb_out.mask = Range(MaskALL)
    /\ cmb_out.layers = <<Layer(<<10, 0, 0>>, "Overlay", Range(MaskALL)),
                          Layer(<<0, 0, 0>>, "Overlay", Range(MaskALL))>>
    /\ cmb_out.colors["A"] = <<10, 0, 0>>

\* every character of s is a hex digit
AllHex(s) == \A i \in 1..Len(s) : s[i] \in DOMAIN HexValue

\* byte j (from 1) that the hex digits of s spell
ByteOf(s, j) == 16 * HexValue[s[2 * j - 1]] + HexValue[s[2 * j]]

\* C16: build_packet gives a packet that is outbound exactly when direction
\* is "O", with the first decoded byte as report id and the remaining decoded
\* bytes as payload; ("O", "0102") gives outbound, report id 1, payload [2];
\* a string of hex digits of odd length raises an error, and so does, when
\* the assert statement is executed, every string of odd length.
C16_BuildPacket ==
    pkt_out.status # "none" =>
        /\ ( /\ Len(pkt_in.data_string) % 2 = 1
             /\ AllHex(pkt_in.data_string) \/ ~pkt_in.optimize )
           => pkt_out.status \in {"AssertionError", "ValueError"}
        /\ pkt_out.status = "ok" => (pkt_out.packet.outbound <=> pkt_in.direction = "O")
        /\ ( /\ AllHex(pkt_in.data_string)
             /\ Len(pkt_in.data_string) % 2 = 0
             /\ Len(pkt_in.data_string) > 0 )
           => /\ pkt_out.status = "ok"
              /\ pkt_out.packet.report_id = ByteOf(pkt_in.data_string, 1)
              /\ pkt_out.packet.data =
                     [j \in 1..((Len(pkt_in.data_string) \div 2) - 1) |->
                         ByteOf(pkt_in.data_string, j + 1)]
        /\ ( /\ pkt_in.direction = "O"
             /\ pkt_in.data_string = <<"0", "1", "0", "2">> )
           => pkt_out.packet = Packet(TRUE, <<2>>, 1)

\* build_packet("O", "0102") has returned
C16_Witness ==
    /\ pkt_in.direction = "O"
    /\ pkt_in.data_string = <<"0", "1", "0", "2">>
    /\ pkt_out.status = "ok"
    /\ pkt_out.packet.report_id = 1
    /\ pkt_out.packet.data = <<2>>

\* C17: for every non-empty hex string h of even length, the hex text of the
\* serialized build_packet("O", h) is h again.
C17_RoundTrip ==
    ( /\ pkt_out.status = "ok"
      /\ pkt_out.text # << >>
      /\ pkt_in.direction = "O"
      /\ AllHex(pkt_in.data_string) )
    => SubSeq(pkt_out.text, 3, Len(pkt_out.text)) = pkt_in.data_string

\* a line without its line end
LineBody(line) ==
    IF line[Len(line)] = "\n" THEN SubSeq(line, 1, Len(line) - 1) ELSE line

\* a line of the form <direction><space><hex>, hex of even length with at
\* least the report id
WellFormed(line) ==
    LET body == LineBody(line)
    IN  /\ Len(body) >= 4
        /\ body[1] \in {"I", "O"}
        /\ body[2] = " "
        /\ Len(body) % 2 = 0
        /\ \A i \in 3..Len(body) : body[i] \in DOMAIN HexValue

\* the packet that a well-formed line stands for
PacketOfLine(line) ==
    LET body == LineBody(line)
        n == (Len(body) - 2) \div 2
    IN  Packet(body[1] = "O",
               [j \in 1..(n - 1) |-> ByteOf(SubSeq(body, 3, Len(body)), j + 1)],
               ByteOf(SubSeq(body, 3, Len(body)), 1))

\* C18: loading a traffic file never fails on the content of a line: the
\* result is one packet for every well-formed I/O line, in file order, also
\* for a last line without line end; every other line is skipped.
C18_LoadNeverFails ==
    file_out.status # "none" =>
        /\ file_out.status = "ok"
        /\ LET lines == SelectSeq(file_lines(file_in.text, << >>), WellFormed)
           IN  file_out.packets = [i \in 1..Len(lines) |-> PacketOfLine(lines[i])]

\* C19: the three channels of a Color are within 0..255 after construction
\* from any integers and after every operation; a sum above 255 gives 255 and
\* a difference below 0 gives 0.
C19_ChannelsInRange ==
    /\ \A i \in 1..3 : col[i] \in 0..255
    /\ col_op.name = "add" =>
          \A i \in 1..3 :
              /\ col_op.before[i] + col_op.arg[i] > 255 => col[i] = 255
              /\ col_op.before[i] + col_op.arg[i] \in 0..255 =>
                    col[i] = col_op.before[i] + col_op.arg[i]
    /\ col_op.name = "sub" =>
          \A i \in 1..3 :
              /\ col_op.before[i] - col_op.arg[i] < 0 => col[i] = 0
              /\ col_op.before[i] - col_op.arg[i] \in 0..255 =>
                    col[i] = col_op.before[i] - col_op.arg[i]

\* (255, 1, 0) was added to (1, 128, 255): the first channel is 255, not 0
C19_Witness ==
    /\ col_op = ColorOp("add", <<1, 128, 255>>, <<255, 1, 0>>)
    /\ col = <<255, 129, 255>>

\* C20: the result of A - B is A without every occurrence of every key of
\* B, in the order of A, for masks and key lists A and B.
C20_DifferenceDisjoint ==
    mask_out.status # "none" =>
        /\ mask_out.status = "ok"
        /\ \A i \in 1..Len(mask_out.keys), j \in 1..Len(mask_out.b) :
              mask_out.keys[i] # mask_out.b[j]
        /\ mask_out.keys =
              SelectSeq(mask_out.a, LAMBDA key : \A j \in 1..Len(mask_out.b) : mask_out.b[j] # key)

\* C21: a mask minus itself is the empty mask: a subtraction whose two
\* operands hold the same key list gives a mask without keys.
C21_SelfDifferenceEmpty ==
    (mask_out.status = "ok" /\ mask_out.a = mask_out.b) => mask_out.keys = << >>

\* C22: for a Gradient of at least two key points whose last t is greater
\* than the first, get_color at the t of the first key point gives the colour
\* of the first key point and get_color at the t of the last key point the
\* colour of the last one, without an error.
C22_EndPoints ==
    LET points == grad.key_points
    IN  ( /\ grad.status = "ok"
          /\ Len(points) > 1
          /\ points[Len(points)].t > points[1].t
          /\ grad_out.status # "none" )
        => /\ grad_out.t = points[1].t =>
                 grad_out.status = "ok" /\ grad_out.color = points[1].color
           /\ grad_out.t = points[Len(points)].t =>
                 grad_out.status = "ok" /\ grad_out.color = points[Len(points)].color


\* C23: construction rejects invalid input at once: a Mask that was built
\* holds strings only, and a Gradient that was built has at least two key
\* points and a last t greater than its first t.
C23_EagerRejection ==
    /\ (built.status = "ok") =>
           \A i \in 1..Len(built.keys) : isinstance_str(built.keys[i])
    /\ (grad.status = "ok") =>
           /\ Len(grad.key_points) > 1
           /\ grad.key_points[Len(grad.key_points)].t > grad.key_points[1].t


\* C24: after update_time, for a period > 0 and a wall clock not before the
\* start, 0 <= current_time < period, and start_time + current_time is the
\* wall clock at the call.
C24_FoldedTime ==
    (per_at >= 0 /\ per_fn.period > 0) =>
        /\ 0 <= per_fn.current_time
        /\ per_fn.current_time < per_fn.period
        /\ per_fn.start_time + per_fn.current_time = per_at


\* C25: two KeyIndex values that denote the same key are equal and have the
\* same hash, and a KeyIndex that denotes a key finds the entry of its key
\* in a key-to-function table.
C25_EqualityAndHash ==
    /\ (kidx_out.status = "compared" /\ key_str(kidx_out.a) = key_str(kidx_out.b)) =>
           kidx_out.eq /\ kidx_out.same_hash
    /\ (tbl_out.status = "looked up") => tbl_out.found


\* the names of the methods of a class body that are decorated with layer(),
\* in the order of the body
LayerMethods(body) == SelectSeq(body, LAMBDA m : m.kind = "layer")

\* the layer methods a class declares, earlier ones first: those of its base
\* that its body does not declare again, then those of its body
DeclaredLayers(cls) ==
    SelectSeq(LayerMethods(cls.base),
              LAMBDA m : \A i \in DOMAIN cls.body : cls.body[i].name # m.name)
        \o LayerMethods(cls.body)

\* C26: get_scheme builds the CombiningScheme once: after any number of
\* calls on a Config, one CombiningScheme has been made, it holds one layer
\* per method decorated with layer(), earlier methods first, and the call
\* returned it.
C26_SchemeBuiltOnce ==
    (cfg_class.status = "ok" /\ cfg_obj.calls > 0) =>
        /\ cfg_obj.created = 1
        /\ cfg_obj.returned = 1
        /\ cfg_obj.result = "CombiningScheme"
        /\ Len(cfg_obj.scheme) = Len(DeclaredLayers(cfg_class))
        /\ \A i \in DOMAIN cfg_obj.scheme :
               cfg_obj.scheme[i] = DeclaredLayers(cfg_class)[i].name

\* the same for the classes without a member named scheme
C26_WithoutMemberScheme ==
    class_attr(cfg_class, "scheme") = "none" => C26_SchemeBuiltOnce


\* the hooks of the hooking schemes among the layers
HooksOfLayers(layers) == UNION {Range(hooks_of(s)) : s \in Range(layers)}

\* C27: hooks follow the layers: no remove_layer ends with an error, the
\* hook list holds the hooks of the layers and no other, and a key event goes
\* to the hooks of the layers of that moment and to no other.
C27_HooksFollowLayers ==
    /\ kb_call.op = "remove_layer" =>
           ~kb_call.raised /\ kb_call.scheme \notin Range(kb_layers)
    /\ Range(hooks_list) = HooksOfLayers(kb_layers)
    /\ kb_event.fired => Range(kb_event.to) = HooksOfLayers(kb_event.layers)


\* C28: subtraction does not modify its operands: after any sequence of
\* subtractions the predefined masks hold their original key lists.
C28_OperandsUnchanged ==
    /\ mask_value["ALL"] = MaskALL
    /\ mask_value["WASD"] = MaskWASD
    /\ mask_value["FUNCTION"] = MaskFUNCTION
    /\ mask_value["NUMPAD"] = MaskNUMPAD


\* C29: get never reads on as false and then start_time while a release of
\* the tracked key has cleared on and not yet stored its time: whenever get
\* evaluates cur_time - self.start_time, no release callback is between its
\* two assignments.
C29_ReleaseSeenWhole ==
    [][(get_pc \in {"compare", "scale"} /\ get_pc' # get_pc) => rel_pc = "idle"]_vars


\* the (packet, position) pairs that the keys of the Ducky layout write
LayoutTargets == {WriteTarget(w) : w \in 1..(3 * Len(KeyOrder))}

\* the header of data packet i (0-based) is in the emitted packet
HeaderIntact(packet, i) ==
    /\ packet.data[1] = 86
    /\ packet.data[2] = 66
    /\ packet.data[3] = 0
    /\ packet.data[4] = 0
    /\ packet.data[5] = 2
    /\ packet.data[6] = IF i = 7 THEN 6 ELSE 18
    /\ packet.data[7] = 18 * i
    /\ packet.data[8] = 0

\* the colour of every key is in the stream, at the three positions from the
\* offset of the key on in the data packet of the key
ReadsBack(stream, keys) ==
    \A k \in DOMAIN KeyLayout, x \in 0..2 :
        stream[2 * KeyLayout[k][1] + 1].data[KeyLayout[k][2] + x + 1] = keys[k][x + 1]

\* C30: in the layout of the Ducky One 2 RGB every colour byte of every key
\* lands in a data packet 0..7 at a position 8..63, no two bytes land on the
\* same position, so packets_to_send does not fail, and every stream it
\* emits has the header of every data packet intact and holds the current
\* colour of every key.
C30_DuckyLayout ==
    /\ \A t \in LayoutTargets : t[1] \in 0..7 /\ t[2] \in 8..63 /\ InArrays(t)
    /\ Cardinality(LayoutTargets) = 3 * Cardinality(DOMAIN KeyLayout)
    /\ [][kcm_stream' # kcm_stream =>
              /\ \A i \in 0..7 : HeaderIntact(kcm_stream'[2 * i + 1], i)
              /\ ReadsBack(kcm_stream', kcm_keys)]_vars

\* a stream was built with RightEnter (packet 7, offset 23) coloured
\* (80, 0, 255) and Escape (packet 0, offset 8) coloured (255, 1, 2)
C30_Witness ==
    /\ kcm_stream # NoStream
    /\ kcm_keys["RightEnter"] = <<80, 0, 255>>
    /\ kcm_keys["Escape"] = <<255, 1, 2>>
    /\ kcm_stream[15].data[24] = 80
    /\ kcm_stream[15].data[26] = 255
    /\ kcm_stream[15].data[6] = 6
    /\ kcm_stream[1].data[9] = 255

====
